---- MODULE Spec2Model ----
(***************************************************************************)
(* A model of the autonomous development pipeline:                         *)
(*   - the phase state machine of InfiniteOrchestrator / AIOrchestrator    *)
(*     (specification Spec),                                               *)
(*   - DirectFileWriter.write_multiple_files (specification SpecBatch) and *)
(*     its callers (specification SpecWriter),                             *)
(*   - RepoService.write_files (specification SpecRepo),                   *)
(*   - Sandbox.run_command on both backends (specification SpecSandbox),   *)
(*   - DirectFileWriter._intelligent_filename_from_content                 *)
(*     (specification SpecFilename),                                       *)
(*   - ModelClient.call_ai_actor (specification SpecClient).               *)
(* Every specification runs over the same variables; the variables of the  *)
(* other components stay at their initial values.                          *)
(***************************************************************************)
EXTENDS Integers, Sequences, FiniteSets, TLC

VARIABLES
    \* ---- controller (InfiniteOrchestrator) --------------------------------
    pc,                     \* position of the controller process
    phase,                  \* self.state.phase
    iteration_count,        \* self.iteration_count
    debug_cycle_count,      \* self.debug_cycle_count
    total_files_created,    \* self.total_files_created
    total_tests_run,        \* self.total_tests_run
    total_bugs_fixed,       \* self.total_bugs_fixed
    max_iterations,         \* self.max_iterations of the running controller
    max_debug_cycles,       \* self.max_debug_cycles (policies.yaml)
    policy_max_iterations,  \* infinite.max_iterations of policies.yaml
    acceptance_tests,       \* self.state.acceptance_tests
    last_logs,              \* self.state.last_logs (a sequence of log parts)
    test_cmd,               \* self.state.test_cmd
    state_file,             \* memory/states/<run_id>.json, or NoRecord
    outcome,                \* how run_autonomous_development ended
    handler_log,            \* history: the last handler executed
    handler_io,             \* history: what the handler that just ended was answered
    handlers_run,           \* history: handlers executed by this process
    diagnose_runs,          \* history: DIAGNOSE handlers executed by this process
    start_log,              \* history: how this process started
    saved_log,              \* history: the controller's values at the last write
    save_failed,            \* history: a state write of this process failed
    interrupt_log,          \* history: where KeyboardInterrupt arrived in this iteration
    debug_loops,            \* history: DIAGNOSE handlers completed since the phase
                            \* last entered the DIAGNOSE / REPAIR loop
    applied,                \* history: the handler whose side effects reached the
                            \* workspace last
    exit_log,               \* history: how and where the previous run ended, kept
                            \* until the next handler has ended
    \* ---- DirectFileWriter -------------------------------------------------
    w_pc,                   \* "ready" / "returned"
    w_parse,                \* the last parsed model response and the strategy used
    w_edits,                \* the edits of the last repo_write tool call
    w_batch,                \* the files argument of the last call
    w_before,               \* history: the project directory before the last call
    w_disk,                 \* the project directory: path -> content or Absent
    w_manifest,             \* requirements.txt: its package set, or NoManifest
    w_history,              \* the git history: one entry per commit
    w_result,               \* the returned dict of the last call
    w_log,                  \* history: what the last call did at the commit step
    \* ---- RepoService ------------------------------------------------------
    r_pc,                   \* "ready" / "returned"
    r_edits,                \* the edits argument of the last call
    r_before,               \* history: the working tree before the last call
    r_disk,                 \* the repository working tree: path -> content or Absent
    r_history,              \* the git history: one entry per commit
    r_result,               \* the returned dict of the last call
    r_log,                  \* history: what the last call did at the commit step
    \* ---- Sandbox ----------------------------------------------------------
    s_pc,                   \* "ready" / "returned"
    s_backend,              \* docker_available: "docker" or "local"
    s_request,              \* the last command, with what running it does
    s_result,               \* the returned SandboxResult
    s_killed,               \* whether the container / process was killed
    \* ---- filename inference -----------------------------------------------
    f_pc,                   \* "ready" / "returned"
    f_content,              \* the code block: the set of text fragments in it
    f_index,                \* the block index
    f_name,                 \* the returned path
    \* ---- ModelClient ------------------------------------------------------
    c_pc,                   \* "ready" / "calling" / "returned"
    c_max_retries,          \* self.config.max_retries
    c_attempt,              \* the loop variable attempt of the next request
    c_outcomes,             \* history: how each request made so far ended
    c_sleeps,               \* history: the asyncio.sleep delays, one entry per
                            \* request made: 0 when none followed the request
    c_response              \* the returned AIResponse

orchVars == <<pc, phase, iteration_count, debug_cycle_count, total_files_created,
              total_tests_run, total_bugs_fixed, max_iterations, max_debug_cycles,
              policy_max_iterations, acceptance_tests, last_logs, test_cmd,
              state_file, outcome, handler_log, handler_io, handlers_run, diagnose_runs,
              start_log, saved_log, save_failed, interrupt_log,
              debug_loops, applied, exit_log>>
writerVars == <<w_pc, w_parse, w_edits, w_batch, w_before, w_disk, w_manifest, w_history,
               w_result, w_log>>
repoVars == <<r_pc, r_edits, r_before, r_disk, r_history, r_result, r_log>>
sandboxVars == <<s_pc, s_backend, s_request, s_result, s_killed>>
filenameVars == <<f_pc, f_content, f_index, f_name>>
clientVars == <<c_pc, c_max_retries, c_attempt, c_outcomes, c_sleeps, c_response>>
vars == <<orchVars, writerVars, repoVars, sandboxVars, filenameVars, clientVars>>
OtherComponents == <<writerVars, repoVars, sandboxVars, filenameVars, clientVars>>

(***************************************************************************)
(* Bounds of the model.                                                    *)
(***************************************************************************)
\* largest max_iterations value a run is given
MaxIter == 4
\* largest max_debug_cycles value of policies.yaml
MaxDebug == 2

\* max_iterations comes from policies.yaml or from --max-iterations (type=int):
\* any integer, the negative ones included.
IterationLimits == (-1)..MaxIter
DebugLimits == 0..MaxDebug

(***************************************************************************)
(* PipelinePhase                                                           *)
(***************************************************************************)
PipelinePhase == {"PLAN", "ARCHITECT", "CODE_WRITE", "TEST_WRITE", "BUILD_RUN",
                  "DIAGNOSE", "REPAIR", "VERIFY", "DONE"}

NoRecord == [phase |-> "-"]
\* no handler has been answered anything in this iteration
NoIO == [kind |-> "-"]
\* no run has ended yet
NoExit == [how |-> "-", at |-> "-"]
NoHandler == [phase |-> "-", iteration |-> 0, raised |-> FALSE, at_error |-> "-"]
NoStart == [kind |-> "-", phase |-> "-", iteration |-> 0, debug_cycles |-> 0]

\* the fallback acceptance criterion of _phase_plan
EmptyAcceptanceTests == <<>>
DefaultAcceptanceTests == <<"Application runs without errors">>

(***************************************************************************)
(* The initial values of the components                                    *)
(***************************************************************************)
OrchInit ==
    /\ pc = "idle"
    /\ phase = "PLAN"
    /\ iteration_count = 0
    /\ debug_cycle_count = 0
    /\ total_files_created = 0
    /\ total_tests_run = 0
    /\ total_bugs_fixed = 0
    /\ policy_max_iterations \in IterationLimits
    /\ max_iterations = policy_max_iterations
    /\ max_debug_cycles \in DebugLimits
    /\ acceptance_tests = <<>>
    /\ last_logs = <<>>
    /\ test_cmd = "None"
    /\ state_file = NoRecord
    /\ outcome = "none"
    /\ handler_log = NoHandler
    /\ handler_io = NoIO
    /\ handlers_run = 0
    /\ diagnose_runs = 0
    /\ start_log = NoStart
    /\ saved_log = NoStart
    /\ save_failed = FALSE
    /\ interrupt_log = "-"
    /\ debug_loops = 0
    /\ applied = "-"
    /\ exit_log = NoExit

OrchIdle ==
    /\ pc = "off"
    /\ phase = "PLAN"
    /\ iteration_count = 0
    /\ debug_cycle_count = 0
    /\ total_files_created = 0
    /\ total_tests_run = 0
    /\ total_bugs_fixed = 0
    /\ policy_max_iterations = 0
    /\ max_iterations = 0
    /\ max_debug_cycles = 0
    /\ acceptance_tests = <<>>
    /\ last_logs = <<>>
    /\ test_cmd = "None"
    /\ state_file = NoRecord
    /\ outcome = "none"
    /\ handler_log = NoHandler
    /\ handler_io = NoIO
    /\ handlers_run = 0
    /\ diagnose_runs = 0
    /\ start_log = NoStart
    /\ saved_log = NoStart
    /\ save_failed = FALSE
    /\ interrupt_log = "-"
    /\ debug_loops = 0
    /\ applied = "-"
    /\ exit_log = NoExit

WriterIdle ==
    /\ w_pc = "off"
    /\ w_parse = [strategy |-> "-"]
    /\ w_edits = <<>>
    /\ w_batch = <<>>
    /\ w_before = <<>>
    /\ w_disk = <<>>
    /\ w_manifest = {}
    /\ w_history = <<>>
    /\ w_result = [success |-> FALSE]
    /\ w_log = [commit |-> "-"]

RepoIdle ==
    /\ r_pc = "off"
    /\ r_edits = <<>>
    /\ r_before = {}
    /\ r_disk = {}
    /\ r_history = <<>>
    /\ r_result = [success |-> FALSE]
    /\ r_log = [commit |-> "-"]

SandboxIdle ==
    /\ s_pc = "off"
    /\ s_backend = "-"
    /\ s_request = [timeout |-> 0]
    /\ s_result = [success |-> FALSE]
    /\ s_killed = FALSE

ClientIdle ==
    /\ c_pc = "off"
    /\ c_max_retries = 0
    /\ c_attempt = 0
    /\ c_outcomes = <<>>
    /\ c_sleeps = <<>>
    /\ c_response = [success |-> FALSE]

FilenameIdle ==
    /\ f_pc = "off"
    /\ f_content = {}
    /\ f_index = 0
    /\ f_name = [path |-> "-", n |-> 0]


(***************************************************************************)
(* The controller: InfiniteOrchestrator.run_autonomous_development         *)
(*                                                                         *)
(* pc: "idle"     no controller process is running, no run exists yet      *)
(*     "head"     at the while condition                                   *)
(*     "phase"    inside _execute_current_phase                            *)
(*     "testing"  inside _comprehensive_testing                            *)
(*     "save"     inside _save_iteration_state                             *)
(*     "sleep"    inside asyncio.sleep(0.5)                                *)
(*     "final"    after the loop, before the completion / limit report     *)
(*     "exit"     run_autonomous_development has ended (see outcome)       *)
(***************************************************************************)

\* the while condition of the main loop
LoopConditionOffByOne(p, i, m) == p # "DONE" /\ i <= m
LoopConditionIgnoresDone(p, i, m) == i < m
LoopCondition(p, i, m) == p # "DONE" /\ i < m

\* the record _save_iteration_state writes
StateRecordNoIteration(p, i, d, f, t, b) ==
    [phase |-> p, iteration |-> 0, debug_cycles |-> d,
     files_created |-> f, tests_run |-> t, bugs_fixed |-> b]
StateRecord(p, i, d, f, t, b) ==
    [phase |-> p, iteration |-> i, debug_cycles |-> d,
     files_created |-> f, tests_run |-> t, bugs_fixed |-> b]

CurrentRecord ==
    StateRecord(phase, iteration_count, debug_cycle_count,
                total_files_created, total_tests_run, total_bugs_fixed)

\* self.iteration_count += 1 at the top of the loop body
NextIterationSkips(i) == i + 2
NextIteration(i) == i + 1

\* _handle_phase_error: the recovery phase for an error raised in phase p
HandlePhaseErrorAlwaysDiagnose(p) == "DIAGNOSE"
HandlePhaseErrorGivesUp(p) == "DONE"
HandlePhaseError(p) == IF p # "DIAGNOSE" THEN "DIAGNOSE" ELSE "REPAIR"

\* self.debug_cycle_count += 1, the first statement of _phase_diagnose_infinite
NextDebugCycleKept(d) == d
NextDebugCycle(d) == d + 1

\* _phase_diagnose_infinite: the ceiling test made after the increment
DebugCeilingExceededLate(count, ceiling) == count > ceiling + 1
DebugCeilingExceeded(count, ceiling) == count > ceiling

\* InfiniteOrchestrator.__init__: the counters of a new controller object
NewController(limit) ==
    /\ iteration_count' = 0
    /\ debug_cycle_count' = 0
    /\ total_files_created' = 0
    /\ total_tests_run' = 0
    /\ total_bugs_fixed' = 0
    /\ max_iterations' = limit
    /\ handler_log' = NoHandler
    /\ handler_io' = NoIO
    /\ handlers_run' = 0
    /\ diagnose_runs' = 0
    /\ save_failed' = FALSE
    /\ interrupt_log' = "-"
    /\ debug_loops' = 0
    /\ outcome' = "none"

\* handle_build_command: a new controller, max_iterations overridden when
\* --max-iterations is not 1000, then run_autonomous_development without a
\* resume id: _initialize_project creates the run state at PLAN.
InitializeProject ==
    /\ phase' = "PLAN"
    /\ acceptance_tests' = <<>>
    /\ last_logs' = <<>>
    /\ test_cmd' = "None"
    /\ state_file' = NoRecord

StartBuild ==
    /\ UNCHANGED OtherComponents
    /\ pc = "idle"
    /\ \E limit \in IterationLimits : NewController(limit)
    /\ InitializeProject
    /\ start_log' = [kind |-> "build", phase |-> "PLAN", iteration |-> 0,
                     debug_cycles |-> 0]
    /\ pc' = "head"
    /\ UNCHANGED <<max_debug_cycles, policy_max_iterations, saved_log, applied,
                   exit_log>>

\* _resume_project: the run state and the counters are loaded from the
\* persisted record of the run id.
ResumeProject ==
    /\ phase' = state_file.phase
    /\ iteration_count' = state_file.iteration
    /\ debug_cycle_count' = state_file.debug_cycles
    /\ total_files_created' = state_file.files_created
    /\ total_tests_run' = state_file.tests_run
    /\ total_bugs_fixed' = state_file.bugs_fixed
    /\ acceptance_tests' = <<>>
    /\ last_logs' = <<>>
    /\ test_cmd' = "None"

\* handle_resume_command: a new controller with the limits of policies.yaml,
\* then run_autonomous_development with the resume id.
StartResume ==
    /\ UNCHANGED OtherComponents
    /\ pc = "exit"
    /\ state_file # NoRecord
    /\ ResumeProject
    /\ max_iterations' = policy_max_iterations
    /\ handler_log' = NoHandler
    /\ handler_io' = NoIO
    /\ handlers_run' = 0
    /\ diagnose_runs' = 0
    /\ save_failed' = FALSE
    /\ interrupt_log' = "-"
    /\ debug_loops' = 0
    /\ outcome' = "none"
    /\ start_log' = [kind |-> "resume", phase |-> state_file.phase,
                     iteration |-> state_file.iteration,
                     debug_cycles |-> state_file.debug_cycles]
    /\ pc' = "head"
    /\ UNCHANGED <<max_debug_cycles, policy_max_iterations, state_file, saved_log,
                   applied, exit_log>>

\* handle_resume_command for a run id without a record: FileNotFoundError
\* leaves run_autonomous_development before the loop.
ResumeNotFound ==
    /\ UNCHANGED OtherComponents
    /\ pc = "exit"
    /\ state_file = NoRecord
    /\ outcome' = "not_found"
    /\ UNCHANGED <<pc, phase, iteration_count, debug_cycle_count,
                   total_files_created, total_tests_run, total_bugs_fixed,
                   max_iterations, max_debug_cycles, policy_max_iterations,
                   acceptance_tests, last_logs, test_cmd, state_file,
                   handler_log, handler_io, handlers_run, diagnose_runs, start_log, saved_log,
                   save_failed, interrupt_log,
                   debug_loops, applied, exit_log>>

\* while (phase != DONE and iteration_count < max_iterations):
\*     iteration_count += 1
LoopHead ==
    /\ UNCHANGED OtherComponents
    /\ pc = "head"
    /\ IF LoopCondition(phase, iteration_count, max_iterations)
       THEN /\ iteration_count' = NextIteration(iteration_count)
            /\ pc' = "phase"
       ELSE /\ iteration_count' = iteration_count
            /\ pc' = "final"
    /\ interrupt_log' = "-"
    /\ UNCHANGED handler_io
    /\ UNCHANGED <<phase, debug_cycle_count, total_files_created, total_tests_run,
                   total_bugs_fixed, max_iterations, max_debug_cycles,
                   policy_max_iterations, acceptance_tests, last_logs, test_cmd,
                   state_file, outcome, handler_log, handlers_run, diagnose_runs,
                   start_log, saved_log, save_failed,
                   debug_loops, applied, exit_log>>


(***************************************************************************)
(* _execute_current_phase: the handler of state.phase inside try/except;   *)
(* an exception of the handler goes to _handle_phase_error.                *)
(***************************************************************************)

\* what no handler changes
ControllerConfig == <<iteration_count, max_iterations, max_debug_cycles,
                      policy_max_iterations, state_file, outcome, start_log,
                      saved_log, save_failed>>

\* the handler of phase h ends (normally, or through _handle_phase_error)
HandlerEnds(h, next, raised, at_error) ==
    /\ phase' = next
    /\ handler_log' = [phase |-> h, iteration |-> iteration_count,
                       raised |-> raised, at_error |-> at_error]
    /\ handlers_run' = handlers_run + 1
    /\ debug_loops' = IF next \notin {"DIAGNOSE", "REPAIR"} THEN 0
                      ELSE IF h = "DIAGNOSE" THEN debug_loops + 1
                      ELSE debug_loops
    /\ applied' = h
    /\ exit_log' = NoExit
    /\ pc' = "testing"
    /\ UNCHANGED ControllerConfig
    /\ UNCHANGED OtherComponents

\* the handler of phase h raised while state.phase was p
HandlerRaises(h, p) == HandlerEnds(h, HandlePhaseError(p), TRUE, p)

\* what the model answers to the plan prompt: a JSON plan with acceptance
\* tests, a JSON object without them, text without JSON that parses, or a
\* content the validator fails on
PlanContents == {"plan", "plan without criteria", "text", "validator error"}

\* SchemaValidator.validate_ai_response(content, "plan"): _validate_plan_response
\* for JSON, the plain-text fallback (success, no acceptance_tests key, an
\* empty tool_calls list) when no JSON parses, success False on an exception
ValidatePlanResponse(content) ==
    CASE content = "plan" ->
            [success |-> TRUE, type |-> "plan", has_criteria |-> TRUE,
             acceptance_tests |-> <<"criterion">>, has_tool_calls |-> FALSE]
      [] content = "plan without criteria" ->
            [success |-> TRUE, type |-> "plan", has_criteria |-> TRUE,
             acceptance_tests |-> <<>>, has_tool_calls |-> FALSE]
      [] content = "text" ->
            [success |-> TRUE, type |-> "text", has_criteria |-> FALSE,
             acceptance_tests |-> <<>>, has_tool_calls |-> TRUE]
      [] OTHER ->
            [success |-> FALSE, type |-> "-", has_criteria |-> FALSE,
             acceptance_tests |-> <<>>, has_tool_calls |-> FALSE]

\* parsed.get("acceptance_tests", [])
PlannedTests(parsed) ==
    IF parsed.has_criteria THEN parsed.acceptance_tests ELSE <<>>

\* AIOrchestrator._phase_plan
PhasePlan ==
    \E response_success \in BOOLEAN, content \in PlanContents,
       raises \in {"no", "before", "tool_calls"} :
        LET parsed == ValidatePlanResponse(content) IN
        /\ handler_io' = IF raises = "before" THEN NoIO
                         ELSE IF ~response_success
                         THEN [kind |-> "plan", model |-> FALSE, valid |-> FALSE,
                               planned |-> <<>>]
                         ELSE [kind |-> "plan", model |-> TRUE,
                               valid |-> parsed.success,
                               planned |-> PlannedTests(parsed)]
        /\ IF raises = "before"
           THEN /\ acceptance_tests' = acceptance_tests
                /\ HandlerRaises("PLAN", phase)
           ELSE IF response_success /\ parsed.success
           THEN /\ acceptance_tests' = PlannedTests(parsed)
                /\ IF raises = "tool_calls" /\ parsed.has_tool_calls
                   THEN HandlerRaises("PLAN", phase)
                   ELSE HandlerEnds("PLAN", "ARCHITECT", FALSE, "-")
           ELSE /\ acceptance_tests' = DefaultAcceptanceTests
                /\ HandlerEnds("PLAN", "ARCHITECT", FALSE, "-")
        /\ UNCHANGED interrupt_log
        /\ UNCHANGED <<last_logs, test_cmd, debug_cycle_count, total_files_created,
                       total_tests_run, total_bugs_fixed, diagnose_runs>>

\* _phase_plan_infinite: the PLAN handler of the infinite controller
PhasePlanInfinite ==
    /\ pc = "phase" /\ phase = "PLAN"
    /\ PhasePlan

\* AIOrchestrator._phase_architect
PhaseArchitect ==
    \E response_success \in BOOLEAN, parsed_success \in BOOLEAN,
       raises \in {"no", "before", "tool_calls"} :
        /\ handler_io' = IF raises = "before" THEN NoIO
                         ELSE [kind |-> "architect", model |-> response_success,
                               valid |-> response_success /\ parsed_success]
        /\ IF raises = "before"
           THEN /\ test_cmd' = test_cmd
                /\ HandlerRaises("ARCHITECT", phase)
           ELSE IF response_success /\ parsed_success
           THEN /\ test_cmd' = "python -m pytest tests/ -v"
                /\ IF raises = "tool_calls"
                   THEN HandlerRaises("ARCHITECT", phase)
                   ELSE HandlerEnds("ARCHITECT", "CODE_WRITE", FALSE, "-")
           ELSE IF response_success
           THEN /\ test_cmd' = test_cmd
                /\ HandlerEnds("ARCHITECT", "TEST_WRITE", FALSE, "-")
           ELSE /\ test_cmd' = test_cmd
                /\ HandlerEnds("ARCHITECT", "CODE_WRITE", FALSE, "-")
        /\ UNCHANGED interrupt_log
        /\ UNCHANGED <<acceptance_tests, last_logs, debug_cycle_count,
                       total_files_created, total_tests_run, total_bugs_fixed,
                       diagnose_runs>>

\* _phase_architect_infinite: the ARCHITECT handler of the infinite controller
PhaseArchitectInfinite ==
    /\ pc = "phase" /\ phase = "ARCHITECT"
    /\ PhaseArchitect

\* the successor AIOrchestrator._phase_code_write sets as its last statement
CodeWriteNextRetries(model, written) ==
    IF model /\ written THEN "TEST_WRITE" ELSE "CODE_WRITE"
CodeWriteNext(model, written) == "TEST_WRITE"

\* _phase_code_write_infinite: AIOrchestrator._phase_code_write, then
\* _display_generated_code, then total_files_created += 1.
\* _phase_code_write: after a successful model call the response goes to
\* parse_ai_response_and_write; when that returns success False the old
\* tool-call path runs (validate_ai_response, _execute_tool_calls, which may
\* raise) and parse_ai_response_and_write is called a second time. The
\* successor is set after all of it.
PhaseCodeWriteInfinite ==
    /\ pc = "phase" /\ phase = "CODE_WRITE"
    /\ \E raises \in {"no", "before", "backup", "display"},
          response_success \in BOOLEAN, first \in BOOLEAN, second \in BOOLEAN :
        LET attempts == IF ~response_success THEN 0 ELSE IF first THEN 1 ELSE 2
            written == response_success /\ (first \/ second)
        IN
        /\ raises = "backup" => response_success /\ ~first /\ ~second
        /\ handler_io' = IF raises = "before" THEN NoIO
                         ELSE IF raises = "backup"
                         THEN [kind |-> "code_write", model |-> TRUE,
                               attempts |-> 1, written |-> FALSE]
                         ELSE [kind |-> "code_write", model |-> response_success,
                               attempts |-> attempts, written |-> written]
        /\ CASE raises \in {"before", "backup"} ->
                    /\ total_files_created' = total_files_created
                    /\ HandlerRaises("CODE_WRITE", phase)
             [] raises = "display" ->
                    /\ total_files_created' = total_files_created
                    /\ HandlerRaises("CODE_WRITE",
                                     CodeWriteNext(response_success, written))
             [] OTHER ->
                    /\ total_files_created' = total_files_created + 1
                    /\ HandlerEnds("CODE_WRITE",
                                   CodeWriteNext(response_success, written),
                                   FALSE, "-")
    /\ UNCHANGED interrupt_log
    /\ UNCHANGED <<acceptance_tests, last_logs, test_cmd, debug_cycle_count,
                   total_tests_run, total_bugs_fixed, diagnose_runs>>

\* _phase_test_write_infinite: AIOrchestrator._phase_test_write (which ends by
\* setting BUILD_RUN), then _display_generated_tests
PhaseTestWriteInfinite ==
    /\ pc = "phase" /\ phase = "TEST_WRITE"
    /\ \E raises \in {"no", "before", "display"} :
        CASE raises = "before" -> HandlerRaises("TEST_WRITE", phase)
          [] raises = "display" -> HandlerRaises("TEST_WRITE", "BUILD_RUN")
          [] OTHER -> HandlerEnds("TEST_WRITE", "BUILD_RUN", FALSE, "-")
    /\ UNCHANGED interrupt_log
    /\ handler_io' = NoIO
    /\ UNCHANGED <<acceptance_tests, last_logs, test_cmd, debug_cycle_count,
                   total_files_created, total_tests_run, total_bugs_fixed,
                   diagnose_runs>>

\* the static-analysis tools run_static_analysis runs for ["**/*.py"]
AnalysisTools == <<"mypy", "ruff", "bandit">>

\* f"{tool.upper()} ISSUES:"
AnalysisHeader(tool) ==
    CASE tool = "mypy" -> "MYPY ISSUES:"
      [] tool = "ruff" -> "RUFF ISSUES:"
      [] OTHER -> "BANDIT ISSUES:"

\* AIOrchestrator._format_failure_logs: one part per failed run, each a
\* non-empty header followed by the run's stderr
RECURSIVE AnalysisLogs(_, _)
AnalysisLogs(failed, k) ==
    IF k > Len(AnalysisTools) THEN <<>>
    ELSE (IF AnalysisTools[k] \in failed
          THEN <<AnalysisHeader(AnalysisTools[k])>> ELSE <<>>)
         \o AnalysisLogs(failed, k + 1)

FormatFailureLogs(test_success, test_stderr, failed) ==
    (IF ~test_success THEN <<"TEST FAILURES:">> \o test_stderr ELSE <<>>)
    \o AnalysisLogs(failed, 1)

\* what Sandbox.install_dependencies returns to _phase_build_run: the result
\* of the install command, or the failed result built when the project has
\* no requirements.txt, pyproject.toml or package.json
InstallResults == {"installed", "install failed", "no dependency file"}

\* the successor AIOrchestrator._phase_build_run chooses
BuildRunNextTestsOnly(tests_passed, analysis_clean) ==
    IF tests_passed THEN "VERIFY" ELSE "DIAGNOSE"
BuildRunNext(tests_passed, analysis_clean) ==
    IF tests_passed /\ analysis_clean THEN "VERIFY" ELSE "DIAGNOSE"

\* _phase_build_run_infinite: AIOrchestrator._phase_build_run, then
\* total_tests_run += 1
PhaseBuildRunInfinite ==
    /\ pc = "phase" /\ phase = "BUILD_RUN"
    /\ \E raises \in BOOLEAN, tests_passed \in BOOLEAN,
          test_stderr \in {<<>>, <<"stderr">>},
          failed \in {{}, {"ruff"}, {"mypy", "ruff", "bandit"}},
          install \in InstallResults :
        IF raises
        THEN /\ install = "installed"
             /\ UNCHANGED <<last_logs, total_tests_run>>
             /\ handler_io' = NoIO
             /\ HandlerRaises("BUILD_RUN", phase)
        ELSE /\ handler_io' = [kind |-> "build_run", tests_passed |-> tests_passed,
                               test_stderr |-> test_stderr, failed |-> failed,
                               install |-> install]
             /\ last_logs' = IF tests_passed /\ failed = {} THEN last_logs
                             ELSE FormatFailureLogs(tests_passed, test_stderr, failed)
             /\ total_tests_run' = total_tests_run + 1
             /\ HandlerEnds("BUILD_RUN", BuildRunNext(tests_passed, failed = {}),
                            FALSE, "-")
    /\ UNCHANGED interrupt_log
    /\ UNCHANGED <<acceptance_tests, test_cmd, debug_cycle_count,
                   total_files_created, total_bugs_fixed, diagnose_runs>>

\* _phase_diagnose_infinite: the counter is incremented first; over the
\* ceiling the handler forces VERIFY and returns; otherwise
\* AIOrchestrator._phase_diagnose runs (it ends by setting REPAIR) and
\* total_bugs_fixed is incremented.
PhaseDiagnoseInfinite ==
    /\ pc = "phase" /\ phase = "DIAGNOSE"
    /\ debug_cycle_count' = NextDebugCycle(debug_cycle_count)
    /\ diagnose_runs' = diagnose_runs + 1
    /\ IF DebugCeilingExceeded(NextDebugCycle(debug_cycle_count), max_debug_cycles)
       THEN /\ total_bugs_fixed' = total_bugs_fixed
            /\ handler_io' = NoIO
            /\ HandlerEnds("DIAGNOSE", "VERIFY", FALSE, "-")
       ELSE \E raises \in BOOLEAN, response_success \in BOOLEAN :
            IF raises
            THEN /\ ~response_success
                 /\ total_bugs_fixed' = total_bugs_fixed
                 /\ handler_io' = NoIO
                 /\ HandlerRaises("DIAGNOSE", phase)
            ELSE /\ total_bugs_fixed' = total_bugs_fixed + 1
                 /\ handler_io' = [kind |-> "diagnose", model |-> response_success]
                 /\ HandlerEnds("DIAGNOSE", "REPAIR", FALSE, "-")
    /\ UNCHANGED interrupt_log
    /\ UNCHANGED <<acceptance_tests, last_logs, test_cmd, total_files_created,
                   total_tests_run>>

\* AIOrchestrator._phase_repair
PhaseRepair ==
    \E raises \in BOOLEAN, test_success \in BOOLEAN,
       test_stderr \in {<<>>, <<"stderr">>} :
        /\ handler_io' = IF raises THEN NoIO
                         ELSE [kind |-> "repair", test_success |-> test_success,
                               test_stderr |-> test_stderr]
        /\ IF raises
           THEN /\ last_logs' = last_logs
                /\ HandlerRaises("REPAIR", phase)
           ELSE IF test_success
           THEN /\ last_logs' = last_logs
                /\ HandlerEnds("REPAIR", "VERIFY", FALSE, "-")
           ELSE /\ last_logs' = test_stderr
                /\ HandlerEnds("REPAIR", "DIAGNOSE", FALSE, "-")
        /\ UNCHANGED interrupt_log
        /\ UNCHANGED <<acceptance_tests, test_cmd, debug_cycle_count,
                       total_files_created, total_tests_run, total_bugs_fixed,
                       diagnose_runs>>

\* _phase_repair_infinite: the REPAIR handler of the infinite controller
PhaseRepairInfinite ==
    /\ pc = "phase" /\ phase = "REPAIR"
    /\ PhaseRepair


\* the completion threshold of _phase_verify_infinite
ConfidenceThreshold == 90
\* the minimum file count of the fallback decision
MinimumFiles == 3
\* confidence values the verifier may answer
Confidences == {0, ConfidenceThreshold - 1, ConfidenceThreshold, 100}
\* file counts of the workspace
FileCounts == {0, MinimumFiles - 1, MinimumFiles}

\* the decision of _phase_verify_infinite on a parsed verifier response
VerifyDecisionNeverTests(complete, confidence, missing_or_issues) ==
    IF complete /\ confidence >= ConfidenceThreshold THEN "DONE" ELSE "CODE_WRITE"
VerifyDecisionCertainOnly(complete, confidence, missing_or_issues) ==
    IF complete /\ confidence >= 100 THEN "DONE"
    ELSE IF missing_or_issues THEN "CODE_WRITE"
    ELSE "TEST_WRITE"
VerifyDecisionAnyConfidence(complete, confidence, missing_or_issues) ==
    IF complete THEN "DONE"
    ELSE IF missing_or_issues THEN "CODE_WRITE"
    ELSE "TEST_WRITE"
VerifyDecision(complete, confidence, missing_or_issues) ==
    IF complete /\ confidence >= ConfidenceThreshold THEN "DONE"
    ELSE IF missing_or_issues THEN "CODE_WRITE"
    ELSE "TEST_WRITE"

\* the fallback decision of _phase_verify_infinite
VerifyFallbackStays(all_tests_pass, file_count) ==
    IF all_tests_pass /\ file_count >= MinimumFiles THEN "DONE" ELSE "VERIFY"
VerifyFallback(all_tests_pass, file_count) ==
    IF all_tests_pass /\ file_count >= MinimumFiles THEN "DONE" ELSE "DIAGNOSE"

\* sandbox.run_command(self.state.project_path, "<command>"): the arguments are
\* given as (project_path, command) to run_command(command, project_path), so
\* the command text is used as the project directory; it does not exist and
\* the result has success = False on both backends.
SwappedCommandSuccess == FALSE

\* the two commands _phase_verify_infinite runs inside try / bare except
GuardedChecks == {"security", "performance"}

\* all(result.success for result in test_results.values()
\*     if hasattr(result, 'success')): unit, integration, security and
\* performance; the static-analysis mapping has no success attribute, and a
\* guarded check that was left through its bare except has no entry.
AllTestsPass(unit, integration, skipped) ==
    /\ unit /\ integration
    /\ \A check \in GuardedChecks \ skipped : SwappedCommandSuccess

\* decision.get("confidence", 0)
GetConfidence(has_confidence, confidence) ==
    IF has_confidence THEN confidence ELSE 0

\* _phase_verify_infinite: the test runs and the two guarded checks, the
\* verifier call, then the decision from the parsed response or the fallback
\* decision. parsed: json.loads and the reading of the decision did not raise.
PhaseVerifyInfinite ==
    /\ pc = "phase" /\ phase = "VERIFY"
    /\ \E raises \in BOOLEAN, unit \in BOOLEAN, integration \in BOOLEAN,
          file_count \in FileCounts, response_success \in BOOLEAN,
          parsed \in BOOLEAN, complete \in BOOLEAN, has_confidence \in BOOLEAN,
          confidence \in Confidences, missing_or_issues \in BOOLEAN,
          skipped \in SUBSET GuardedChecks :
        \* skipped: the guarded checks during which KeyboardInterrupt arrived;
        \* the bare except takes it and the handler goes on
        LET decided == response_success /\ parsed
            all_tests_pass == AllTestsPass(unit, integration, skipped)
        IN
        \* a decision exists only in a parsed response; an absent confidence
        \* has no value
        /\ ~decided => ~complete /\ ~has_confidence /\ ~missing_or_issues
        /\ ~has_confidence => confidence = 0
        /\ ~response_success => ~parsed
        \* what the outcome does not read is fixed: nothing but the guarded
        \* checks when the handler raises, not the file count on a decision
        /\ raises => unit /\ integration /\ file_count = 0 /\ ~response_success
        /\ decided => file_count = 0
        /\ interrupt_log' = IF skipped # {} THEN "verify" ELSE interrupt_log
        /\ handler_io' =
                IF raises THEN NoIO
                ELSE IF decided
                THEN [kind |-> "verify", path |-> "parsed", complete |-> complete,
                      has_confidence |-> has_confidence, confidence |-> confidence,
                      missing_or_issues |-> missing_or_issues,
                      tests_passed |-> unit /\ integration]
                ELSE [kind |-> "verify", path |-> "fallback",
                      model |-> response_success,
                      tests_passed |-> unit /\ integration,
                      file_count |-> file_count, skipped |-> skipped]
        /\ IF raises
           THEN HandlerRaises("VERIFY", phase)
           ELSE IF decided
           THEN HandlerEnds("VERIFY",
                            VerifyDecision(complete,
                                           GetConfidence(has_confidence, confidence),
                                           missing_or_issues),
                            FALSE, "-")
           ELSE HandlerEnds("VERIFY", VerifyFallback(all_tests_pass, file_count),
                            FALSE, "-")
    /\ UNCHANGED <<acceptance_tests, last_logs, test_cmd, debug_cycle_count,
                   total_files_created, total_tests_run, total_bugs_fixed,
                   diagnose_runs>>

\* _execute_current_phase: the if / elif chain over state.phase
ExecuteCurrentPhase ==
    \/ PhasePlanInfinite
    \/ PhaseArchitectInfinite
    \/ PhaseCodeWriteInfinite
    \/ PhaseTestWriteInfinite
    \/ PhaseBuildRunInfinite
    \/ PhaseDiagnoseInfinite
    \/ PhaseRepairInfinite
    \/ PhaseVerifyInfinite

\* if self.test_everything: await self._comprehensive_testing()
\* Both sandbox commands run inside try / bare except; the run state is not
\* touched. A KeyboardInterrupt that arrives inside one of the two try blocks
\* is taken by the bare except and the loop goes on.
ComprehensiveTesting ==
    /\ UNCHANGED OtherComponents
    /\ pc = "testing"
    /\ \E test_everything \in BOOLEAN, interrupted \in BOOLEAN :
        /\ interrupt_log' = IF test_everything /\ interrupted
                            THEN "testing" ELSE interrupt_log
        /\ pc' = "save"
    /\ handler_io' = NoIO
    /\ UNCHANGED <<phase, iteration_count, debug_cycle_count, total_files_created,
                   total_tests_run, total_bugs_fixed, max_iterations,
                   max_debug_cycles, policy_max_iterations, acceptance_tests,
                   last_logs, test_cmd, state_file, outcome, handler_log,
                   handlers_run, diagnose_runs, start_log, saved_log, save_failed,
                   debug_loops, applied, exit_log>>

\* _handle_critical_error: the error is logged and shown; nothing is saved
HandleCriticalError ==
    /\ outcome' = "critical"
    /\ pc' = "exit"
    /\ exit_log' = [how |-> "error", at |-> pc]

\* _save_iteration_state in the loop: the record is written; an error of
\* mkdir / open / json.dump is not caught here and reaches the outer
\* `except Exception` of run_autonomous_development.
SaveIterationState ==
    /\ UNCHANGED OtherComponents
    /\ pc = "save"
    /\ \E write_ok \in BOOLEAN :
        IF write_ok
        THEN /\ state_file' = CurrentRecord
             /\ saved_log' = [kind |-> "loop", phase |-> phase,
                              iteration |-> iteration_count,
                              debug_cycles |-> debug_cycle_count]
             /\ save_failed' = save_failed
             /\ pc' = "sleep"
             /\ outcome' = outcome
             /\ exit_log' = exit_log
        ELSE /\ state_file' = state_file
             /\ saved_log' = saved_log
             /\ save_failed' = TRUE
             /\ HandleCriticalError
    /\ UNCHANGED <<phase, iteration_count, debug_cycle_count, total_files_created,
                   total_tests_run, total_bugs_fixed, max_iterations,
                   max_debug_cycles, policy_max_iterations, acceptance_tests,
                   last_logs, test_cmd, handler_log, handler_io, handlers_run, diagnose_runs,
                   start_log, interrupt_log,
                   debug_loops, applied>>

\* await asyncio.sleep(0.5)
Sleep ==
    /\ UNCHANGED OtherComponents
    /\ pc = "sleep"
    /\ pc' = "head"
    /\ UNCHANGED <<phase, iteration_count, debug_cycle_count, total_files_created,
                   total_tests_run, total_bugs_fixed, max_iterations,
                   max_debug_cycles, policy_max_iterations, acceptance_tests,
                   last_logs, test_cmd, state_file, outcome, handler_log, handler_io,
                   handlers_run, diagnose_runs, start_log, saved_log, save_failed,
                   interrupt_log,
                   debug_loops, applied, exit_log>>

\* after the loop: _celebrate_completion or _handle_max_iterations_reached.
\* _celebrate_completion divides by max_iterations; an exception of either
\* report reaches the outer `except Exception`.
Final ==
    /\ UNCHANGED OtherComponents
    /\ pc = "final"
    /\ IF phase = "DONE"
       THEN \E console \in BOOLEAN :
            IF console /\ max_iterations = 0
            THEN HandleCriticalError
            ELSE /\ outcome' = "completed" /\ pc' = "exit"
                 /\ exit_log' = [how |-> "end", at |-> pc]
       ELSE /\ outcome' = "limit" /\ pc' = "exit"
            /\ exit_log' = [how |-> "end", at |-> pc]
    /\ UNCHANGED <<phase, iteration_count, debug_cycle_count, total_files_created,
                   total_tests_run, total_bugs_fixed, max_iterations,
                   max_debug_cycles, policy_max_iterations, acceptance_tests,
                   last_logs, test_cmd, state_file, handler_log, handler_io, handlers_run,
                   diagnose_runs, start_log, saved_log, save_failed, interrupt_log,
                   debug_loops, applied>>

\* except KeyboardInterrupt: the state is saved and the run ends; an error of
\* that save leaves run_autonomous_development as an exception.
InterruptHandler ==
    /\ pc' = "exit"
    /\ exit_log' = [how |-> "interrupt", at |-> pc]
    /\ \E write_ok \in BOOLEAN :
        IF write_ok
        THEN /\ state_file' = StateRecord(phase', iteration_count',
                                          debug_cycle_count', total_files_created',
                                          total_tests_run', total_bugs_fixed')
             /\ saved_log' = [kind |-> "interrupt", phase |-> phase',
                              iteration |-> iteration_count',
                              debug_cycles |-> debug_cycle_count']
             /\ save_failed' = save_failed
             /\ outcome' = "interrupted"
        ELSE /\ state_file' = state_file
             /\ saved_log' = saved_log
             /\ save_failed' = TRUE
             /\ outcome' = "raised"

\* KeyboardInterrupt while a handler waits for the model or for a sandbox
\* command. Only the DIAGNOSE handler has changed the run state before its
\* first await (the counter); over the ceiling it returns without an await.
InterruptInHandler ==
    /\ UNCHANGED OtherComponents
    /\ pc = "phase"
    /\ IF phase = "DIAGNOSE"
       THEN /\ ~DebugCeilingExceeded(NextDebugCycle(debug_cycle_count), max_debug_cycles)
            /\ debug_cycle_count' = NextDebugCycle(debug_cycle_count)
            /\ diagnose_runs' = diagnose_runs + 1
       ELSE UNCHANGED <<debug_cycle_count, diagnose_runs>>
    /\ handler_io' = NoIO
    /\ handler_log' = [phase |-> phase, iteration |-> iteration_count,
                       raised |-> FALSE, at_error |-> "interrupt"]
    /\ handlers_run' = handlers_run + 1
    /\ interrupt_log' = "handler"
    \* the interrupted handler may have written to the workspace already
    /\ applied' \in {applied, phase}
    /\ UNCHANGED <<phase, iteration_count, total_files_created, total_tests_run,
                   total_bugs_fixed, max_iterations, max_debug_cycles,
                   policy_max_iterations, acceptance_tests, last_logs, test_cmd,
                   start_log,
                   debug_loops>>
    /\ InterruptHandler

\* KeyboardInterrupt during asyncio.sleep
InterruptInSleep ==
    /\ UNCHANGED OtherComponents
    /\ pc = "sleep"
    /\ interrupt_log' = "sleep"
    /\ UNCHANGED <<phase, iteration_count, debug_cycle_count, total_files_created,
                   total_tests_run, total_bugs_fixed, max_iterations,
                   max_debug_cycles, policy_max_iterations, acceptance_tests,
                   last_logs, test_cmd, handler_log, handler_io, handlers_run, diagnose_runs,
                   start_log,
                   debug_loops, applied>>
    /\ InterruptHandler

\* KeyboardInterrupt during _comprehensive_testing outside its two try
\* blocks (the existence test of the project path, Sandbox())
InterruptInTesting ==
    /\ UNCHANGED OtherComponents
    /\ pc = "testing"
    /\ interrupt_log' = "testing"
    /\ UNCHANGED <<phase, iteration_count, debug_cycle_count, total_files_created,
                   total_tests_run, total_bugs_fixed, max_iterations,
                   max_debug_cycles, policy_max_iterations, acceptance_tests,
                   last_logs, test_cmd, handler_log, handler_io, handlers_run, diagnose_runs,
                   start_log,
                   debug_loops, applied>>
    /\ InterruptHandler

\* the controller process dies (kill, power loss, an error outside Python)
\* inside the loop body: nothing more is written. A handler that was running
\* has been invoked, has made its first in-memory changes, and may have
\* written to the workspace already.
Crash ==
    /\ UNCHANGED OtherComponents
    /\ pc \in {"phase", "testing", "save", "sleep"}
    /\ pc' = "exit"
    /\ outcome' = "crashed"
    /\ exit_log' = [how |-> "crash", at |-> pc]
    /\ IF pc = "phase"
       THEN /\ phase = "DIAGNOSE"
                => ~DebugCeilingExceeded(NextDebugCycle(debug_cycle_count),
                                         max_debug_cycles)
            /\ debug_cycle_count' = IF phase = "DIAGNOSE"
                                    THEN NextDebugCycle(debug_cycle_count)
                                    ELSE debug_cycle_count
            /\ diagnose_runs' = IF phase = "DIAGNOSE"
                                THEN diagnose_runs + 1 ELSE diagnose_runs
            /\ handler_log' = [phase |-> phase, iteration |-> iteration_count,
                               raised |-> FALSE, at_error |-> "crash"]
            /\ handlers_run' = handlers_run + 1
            /\ applied' \in {applied, phase}
       ELSE UNCHANGED <<debug_cycle_count, diagnose_runs, handler_log,
                        handlers_run, applied>>
    /\ UNCHANGED <<phase, iteration_count, total_files_created, total_tests_run,
                   total_bugs_fixed, max_iterations, max_debug_cycles,
                   policy_max_iterations, acceptance_tests, last_logs, test_cmd,
                   state_file, handler_io, start_log, saved_log, save_failed,
                   interrupt_log, debug_loops>>

Init == OrchInit /\ WriterIdle /\ RepoIdle /\ SandboxIdle /\ FilenameIdle /\ ClientIdle

Next ==
    \/ StartBuild
    \/ StartResume
    \/ ResumeNotFound
    \/ LoopHead
    \/ PhasePlanInfinite
    \/ PhaseArchitectInfinite
    \/ PhaseCodeWriteInfinite
    \/ PhaseTestWriteInfinite
    \/ PhaseBuildRunInfinite
    \/ PhaseDiagnoseInfinite
    \/ PhaseRepairInfinite
    \/ PhaseVerifyInfinite
    \/ ComprehensiveTesting
    \/ SaveIterationState
    \/ Sleep
    \/ Final
    \/ InterruptInHandler
    \/ InterruptInTesting
    \/ Crash
    \/ InterruptInSleep

Spec == Init /\ [][Next]_vars


\* Every step of the loop is sequential code that goes on once the awaited
\* model call or sandbox command has returned.
SpecLive == Spec /\ WF_vars(Next)

(***************************************************************************)
(* Properties of the controller                                            *)
(***************************************************************************)
Max(a, b) == IF a >= b THEN a ELSE b

\* C1 (as stated): a handler runs only while phase != DONE and the counter was
\* below max_iterations, iteration_count never exceeds max_iterations, a run
\* that hits the ceiling ends with the limit report and returns, and every
\* run ends.
C1_Original ==
    /\ [](pc = "phase" => phase # "DONE" /\ iteration_count - 1 < max_iterations)
    /\ [](pc # "idle" => iteration_count <= max_iterations)
    /\ [][pc = "final" /\ phase # "DONE" => pc' = "exit" /\ outcome' = "limit"]_vars
    /\ (pc = "head" ~> pc = "exit")

\* C1 (amended): as C1, with the bound on iteration_count stated for what the
\* loop does: the loop never increments iteration_count beyond max_iterations,
\* so the counter never exceeds the larger of max_iterations and its value at
\* the start of the run (0 for a new run with a negative limit, the persisted
\* iteration for a resumed run).
C1_LoopTerminates ==
    /\ [](pc = "phase" => phase # "DONE" /\ iteration_count - 1 < max_iterations)
    /\ [](pc # "idle" =>
            iteration_count <= Max(max_iterations, start_log.iteration))
    /\ [][iteration_count' > iteration_count /\ pc = "head"
            => iteration_count' <= max_iterations]_vars
    /\ [][pc = "final" /\ phase # "DONE" => pc' = "exit" /\ outcome' = "limit"]_vars
    /\ (pc = "head" ~> pc = "exit")

\* a run that used all its iterations and ended with the limit report
C1_Witness ==
    /\ pc = "exit" /\ outcome = "limit"
    /\ handlers_run = max_iterations /\ max_iterations >= 2
    /\ iteration_count = max_iterations

\* C2: when the loop stops because iteration_count = max_iterations, a
\* persisted record of the run exists and its phase is the controller's phase.
C2_RecordAtLimit ==
    (pc = "exit" /\ outcome = "limit" /\ iteration_count = max_iterations)
        => (state_file # NoRecord /\ state_file.phase = phase)

\* C3: in one run of the controller, the (max_debug_cycles + 1)-th and every
\* later execution of the DIAGNOSE handler ends, in the same iteration, with
\* phase VERIFY.
C3_DiagnoseForcedToVerify ==
    [][(pc = "phase" /\ phase = "DIAGNOSE" /\ pc' = "testing"
        /\ diagnose_runs' > max_debug_cycles) => phase' = "VERIFY"]_vars

\* the DIAGNOSE handler ran over the ceiling with failure logs of a REPAIR
C3_Witness ==
    /\ pc = "testing" /\ handler_log.phase = "DIAGNOSE"
    /\ max_debug_cycles >= 1 /\ diagnose_runs = max_debug_cycles + 1
    /\ last_logs # <<>>
    /\ phase = "VERIFY"

C9_HandlerErrorRecovered ==
    [][(pc = "phase" /\ handlers_run' = handlers_run + 1 /\ handler_log'.raised)
        => /\ pc' = "testing"
           /\ outcome' = "none"
           /\ phase' = IF handler_log'.at_error = "DIAGNOSE"
                       THEN "REPAIR" ELSE "DIAGNOSE"]_vars

\* the DIAGNOSE handler raised and the loop goes on with REPAIR
C9_Witness ==
    /\ pc = "testing" /\ handler_log.raised
    /\ handler_log.phase = "DIAGNOSE" /\ handler_log.at_error = "DIAGNOSE"
    /\ phase = "REPAIR"

\* C10: a failed state write of an iteration does not halt the run.
C10_SaveFailureDoesNotHalt ==
    [][(pc = "save" /\ save_failed') => pc' = "sleep"]_vars


(***************************************************************************)
(* DirectFileWriter.write_multiple_files                                   *)
(***************************************************************************)
\* longest batch of one call
MaxBatch == 2

Absent == "absent"
NoManifest == {"(no requirements.txt)"}
WriterPaths == {"main.py", "utils/helper.py", "README.md"}
\* the files a batch is made of: path, content, and the module names of the
\* content's import lines
WriterFiles ==
    {[path |-> "main.py", content |-> "v1", imports |-> {"yaml", "os"}],
     [path |-> "main.py", content |-> "v2", imports |-> {"sqlite3"}],
     [path |-> "utils/helper.py", content |-> "v1", imports |-> {"requests"}],
     [path |-> "README.md", content |-> "v1", imports |-> {}]}
WriterBatches == UNION {[1..n -> WriterFiles] : n \in 0..MaxBatch}

\* file_path.endswith('.py')
IsPython(path) == path \in {"main.py", "utils/helper.py"}

\* _extract_dependencies: stdlib_modules
StdlibModules == {"os", "sys", "re", "json"}
\* _extract_dependencies: package_mappings.get(module_name, module_name)
PackageName(module) == IF module = "yaml" THEN "PyYAML" ELSE module
\* _extract_dependencies
ExtractDependencies(imports) ==
    {PackageName(m) : m \in imports \ StdlibModules}

\* the paths of the first k files of a batch, in order
RECURSIVE FirstPaths(_, _)
FirstPaths(files, k) ==
    IF k = 0 THEN <<>> ELSE Append(FirstPaths(files, k - 1), files[k].path)

\* a writer that removes what it wrote when a later file fails
DiskRolledBack(disk, files, k) == disk
\* the project directory after the first k files of a batch were written
RECURSIVE DiskAfter(_, _, _)
DiskAfter(disk, files, k) ==
    IF k = 0 THEN disk
    ELSE [DiskAfter(disk, files, k - 1) EXCEPT ![files[k].path] = files[k].content]

\* _auto_install_dependencies: the packages found in the created .py files
\* (a file whose read fails is skipped)
BatchDependencies(files, unreadable) ==
    UNION {ExtractDependencies(files[k].imports) :
             k \in {j \in 1..Len(files) : IsPython(files[j].path) /\ j \notin unreadable}}

RangeOf(seq) == {seq[k] : k \in 1..Len(seq)}

\* how one `pip install` of _install_dependencies ends: return code 0, another
\* return code, subprocess.TimeoutExpired, or another exception
InstallOutcomes == {"installed", "failed", "timed out", "error"}
\* no package was handed to pip
NoInstalls == <<>>
\* a loop of _install_dependencies that ends at the first package that fails
InstallDependenciesStopAtFailure(dependencies) ==
    {i \in [dependencies -> InstallOutcomes \cup {"not attempted"}] :
        LET stopped == {p \in dependencies :
                           i[p] \in {"failed", "timed out", "error"}}
        IN /\ Cardinality(stopped) <= 1
           /\ (\E p \in dependencies : i[p] = "not attempted") => stopped # {}}
\* _install_dependencies(dependencies): every package gets its own attempt,
\* whatever the outcome of the others
InstallDependencies(dependencies) == [dependencies -> InstallOutcomes]

\* the dict write_multiple_files returns after the commit step
WriterSuccessResult(created, commit) ==
    [success |-> TRUE, files_created |-> created, error |-> "none"]

\* the body of write_multiple_files(files, commit_message)
\*   fail_at    0, or the index of the file whose mkdir / write_text raises
\*   commit_ok  whether repo.index.add + commit succeed
WriteBatch(files) ==
    /\ \E commit_ok \in BOOLEAN, manifest_ok \in BOOLEAN :
       \E fail_at \in 0..Len(files), unreadable \in SUBSET (1..Len(files)) :
       \E installs \in InstallDependencies(
                          IF fail_at = 0 /\ manifest_ok
                          THEN BatchDependencies(files, unreadable) ELSE {}) :
        /\ w_batch' = files
        /\ w_before' = w_disk
        /\ IF fail_at > 0
           THEN \* except Exception: the files written so far stay
                /\ w_disk' = DiskAfter(w_disk, files, fail_at - 1)
                /\ w_manifest' = w_manifest
                /\ w_history' = w_history
                /\ w_log' = [commit |-> "skipped", discovery |-> "skipped",
                             scanned_all |-> FALSE, installs |-> NoInstalls]
                /\ w_result' = [success |-> FALSE,
                                files_created |-> FirstPaths(files, fail_at - 1),
                                error |-> "write failed"]
           ELSE LET created == FirstPaths(files, Len(files))
                    deps == BatchDependencies(files, unreadable)
                    commit == IF created = <<>> THEN "skipped"
                              ELSE IF commit_ok THEN "done" ELSE "failed"
                IN  /\ w_disk' = DiskAfter(w_disk, files, Len(files))
                    /\ w_manifest' = IF deps # {} /\ manifest_ok
                                     THEN deps ELSE w_manifest
                    /\ w_history' = IF commit = "done"
                                    THEN Append(w_history, [paths |-> RangeOf(created)])
                                    ELSE w_history
                    /\ w_log' = [commit |-> commit,
                                 discovery |-> IF deps = {} THEN "none"
                                               ELSE IF manifest_ok THEN "written"
                                               ELSE "failed",
                                 scanned_all |->
                                    \A k \in unreadable : ~IsPython(files[k].path),
                                 installs |-> installs]
                    /\ w_result' = WriterSuccessResult(created, commit)
    /\ w_pc' = "returned"
    /\ UNCHANGED <<orchVars, repoVars, sandboxVars, filenameVars, clientVars>>

\* a caller hands a batch to write_multiple_files
WriteMultipleFiles ==
    /\ w_pc = "ready"
    /\ w_edits' = <<>>
    /\ UNCHANGED w_parse
    /\ \E files \in WriterBatches : WriteBatch(files)

\* the edits of a repo_write tool call: a file and the mode the model asks
\* for; a patch edit carries a diff and no content
ToolEdits == [file : WriterFiles, mode : {"create", "replace", "patch"}]
ToolEditLists == UNION {[1..n -> ToolEdits] : n \in 0..MaxBatch}

\* _execute_tool_calls: the files taken from the edits of a repo_write call
\*   if edit.get("mode") in ["create", "replace"] and "content" in edit
RECURSIVE FilesOfEdits(_, _)
FilesOfEdits(edits, k) ==
    IF k = 0 THEN <<>>
    ELSE FilesOfEdits(edits, k - 1)
         \o (IF edits[k].mode \in {"create", "replace"}
             THEN <<edits[k].file>> ELSE <<>>)

\* AIOrchestrator._execute_tool_calls for one repo_write call: the files go
\* to write_multiple_files; without files only a warning is logged
ExecuteToolCalls ==
    /\ w_pc = "ready"
    /\ \E edits \in ToolEditLists :
        LET files == FilesOfEdits(edits, Len(edits)) IN
        /\ w_edits' = edits
        /\ UNCHANGED w_parse
        /\ IF files # <<>>
           THEN WriteBatch(files)
           ELSE /\ w_pc' = "returned"
                /\ w_batch' = <<>>
                /\ w_before' = w_disk
                /\ w_log' = [commit |-> "skipped", discovery |-> "skipped",
                             scanned_all |-> FALSE, installs |-> NoInstalls]
                /\ UNCHANGED <<w_disk, w_manifest, w_history, w_result>>
                /\ UNCHANGED <<orchVars, repoVars, sandboxVars, filenameVars, clientVars>>

\* a model response, by what the extraction strategies find in it:
\*   tool_calls_text  the text "tool_calls" occurs in it
\*   json             what the tool-call JSON strategy gets: no JSON match,
\*                    a repo_write call with files, or matches without files
\*   path_text        the text "path" (in double quotes) occurs in it
\*   pairs            loose "path": / "content": pairs are found
\*   blocks           it has fenced code blocks
\*   python_text      it has Python keywords outside code blocks
AIResponses ==
    {r \in [tool_calls_text : BOOLEAN, json : {"none", "files", "no files"},
            path_text : BOOLEAN, pairs : BOOLEAN, blocks : BOOLEAN,
            python_text : BOOLEAN] :
        /\ r.json # "none" => r.tool_calls_text
        /\ r.pairs => r.path_text
        /\ r.json = "files" => r.path_text}

\* _parse_json_and_write: the strategy that yields the files, or "none"
ParseJson(response) ==
    IF response.json = "none"
    THEN IF response.pairs THEN "pairs" ELSE "none"
    ELSE IF response.json = "files" THEN "tool_calls" ELSE "none"

\* _parse_code_blocks_and_write, with _extract_files_from_text
ParseCodeBlocks(response) ==
    IF response.blocks THEN "code_blocks"
    ELSE IF response.python_text THEN "whole_response"
    ELSE "none"

\* parse_ai_response_and_write: the choice between the two parsers
ParseStrategy(response) ==
    IF response.tool_calls_text \/ response.path_text
    THEN ParseJson(response)
    ELSE ParseCodeBlocks(response)

\* parse_ai_response_and_write(ai_response, commit_message): the files the
\* chosen strategy extracts go to write_multiple_files
ParseAIResponseAndWrite ==
    /\ w_pc = "ready"
    /\ w_edits' = <<>>
    /\ \E response \in AIResponses, files \in WriterBatches \ {<<>>} :
        LET strategy == ParseStrategy(response) IN
        /\ w_parse' = [strategy |-> strategy, response |-> response]
        /\ IF strategy # "none"
           THEN WriteBatch(files)
           ELSE /\ w_pc' = "returned"
                /\ w_batch' = <<>>
                /\ w_before' = w_disk
                /\ w_log' = [commit |-> "skipped", discovery |-> "skipped",
                             scanned_all |-> FALSE, installs |-> NoInstalls]
                /\ w_result' = [success |-> FALSE, files_created |-> <<>>,
                                error |-> "no files found"]
                /\ UNCHANGED <<w_disk, w_manifest, w_history>>
                /\ UNCHANGED <<orchVars, repoVars, sandboxVars, filenameVars, clientVars>>

\* DirectFileWriter.__init__ / _init_git: the project directory exists
\* (earlier batches may have left files in it), with its git repository and
\* the initial commit of .gitignore
WriterInit ==
    /\ w_pc = "ready"
    /\ w_parse = [strategy |-> "-"]
    /\ w_edits = <<>>
    /\ w_batch = <<>>
    /\ w_disk \in [WriterPaths -> {Absent, "v1"}]
    /\ w_before = w_disk
    /\ w_manifest \in {NoManifest, {"requests"}}
    /\ w_history = <<[paths |-> {".gitignore"}]>>
    /\ w_result = [success |-> FALSE]
    /\ w_log = [commit |-> "-"]

InitWriter == OrchIdle /\ WriterInit /\ RepoIdle /\ SandboxIdle /\ FilenameIdle /\ ClientIdle
NextWriter == WriteMultipleFiles \/ ExecuteToolCalls \/ ParseAIResponseAndWrite
SpecWriter == InitWriter /\ [][NextWriter]_vars

\* write_multiple_files called directly with a batch
NextBatch == WriteMultipleFiles
SpecBatch == InitWriter /\ [][NextBatch]_vars

\* C5: write_multiple_files writes every file and makes one commit covering
\* all written paths; when the commit step fails the files stay on disk and
\* the result reports the commit failure, so no batch is reported as plainly
\* successful while none of its files were committed.
C5_CommitFailureReported ==
    (w_pc = "returned" /\ w_result.success /\ w_result.files_created # <<>>)
        => /\ \A k \in 1..Len(w_batch) : w_disk[w_batch[k].path] # Absent
           /\ \/ /\ w_log.commit = "done"
                 /\ w_history[Len(w_history)].paths = RangeOf(w_result.files_created)
              \/ /\ w_log.commit = "failed"
                 /\ w_result.error # "none"


(***************************************************************************)
(* RepoService.write_files                                                 *)
(***************************************************************************)
\* longest edit list of one call
MaxEdits == 2

RepoPaths == {"a.py", "b.py"}
\* FileEdit, with what the file system does to it: "raises" when mkdir or
\* write_text raises, "rejected" when git apply refuses the patch
RepoEdits ==
    [path : RepoPaths, mode : {"create", "replace"}, fault : {"none", "raises"}]
    \cup [path : RepoPaths, mode : {"patch"}, fault : {"none", "raises", "rejected"}]
RepoEditLists == UNION {[1..n -> RepoEdits] : n \in 0..MaxEdits}

SeqContains(seq, x) == \E k \in 1..Len(seq) : seq[k] = x

\* the body of the for loop of write_files, for one edit
ApplyEdit(acc, edit) ==
    IF edit.fault = "raises"
    THEN [acc EXCEPT !.errors = Append(@, "edit error")]
    ELSE CASE edit.mode = "create" ->
                IF acc.disk[edit.path] # Absent
                THEN [acc EXCEPT !.errors = Append(@, "exists")]
                ELSE [acc EXCEPT !.disk[edit.path] = "new",
                                 !.files_created = Append(@, edit.path)]
           [] edit.mode = "replace" ->
                IF SeqContains(acc.files_created, edit.path)
                THEN [acc EXCEPT !.disk[edit.path] = "new"]
                ELSE [acc EXCEPT !.disk[edit.path] = "new",
                                 !.files_modified = Append(@, edit.path)]
           [] edit.mode = "patch" ->
                IF acc.disk[edit.path] = Absent
                THEN [acc EXCEPT !.errors = Append(@, "missing")]
                ELSE IF edit.fault = "rejected"
                THEN [acc EXCEPT !.errors = Append(@, "patch failed")]
                ELSE [acc EXCEPT !.disk[edit.path] = "patched",
                                 !.files_modified = Append(@, edit.path)]

\* the for loop of write_files over the first k edits
RECURSIVE ApplyEdits(_, _, _)
ApplyEdits(disk, edits, k) ==
    IF k = 0
    THEN [disk |-> disk, files_created |-> <<>>, files_modified |-> <<>>,
          errors |-> <<>>]
    ELSE ApplyEdit(ApplyEdits(disk, edits, k - 1), edits[k])

\* if modified_files and not result["errors"]
CommitDespiteErrors(modified_files, errors) == modified_files # <<>>
CommitAttempted(modified_files, errors) ==
    modified_files # <<>> /\ errors = <<>>

\* write_files(edits, commit_message)
\*   commit_ok  whether repo.index.add + commit succeed
WriteFiles ==
    /\ r_pc = "ready"
    /\ \E edits \in RepoEditLists, commit_ok \in BOOLEAN :
        LET acc == ApplyEdits(r_disk, edits, Len(edits))
            modified_files == acc.files_created \o acc.files_modified
            commit == IF ~CommitAttempted(modified_files, acc.errors) THEN "skipped"
                      ELSE IF commit_ok THEN "done" ELSE "failed"
            errors == IF commit = "failed"
                      THEN Append(acc.errors, "Git commit failed")
                      ELSE acc.errors
        IN  /\ r_edits' = edits
            /\ r_before' = r_disk
            /\ r_disk' = acc.disk
            /\ r_history' = IF commit = "done"
                            THEN Append(r_history, [paths |-> RangeOf(modified_files)])
                            ELSE r_history
            /\ r_log' = [commit |-> commit]
            /\ r_result' = [success |-> errors = <<>>,
                            files_modified |-> acc.files_modified,
                            files_created |-> acc.files_created,
                            errors |-> errors]
    /\ r_pc' = "returned"
    /\ UNCHANGED <<orchVars, writerVars, sandboxVars, filenameVars, clientVars>>

\* RepoService.__init__ / _init_git_repo: the repository exists (earlier
\* batches may have left files in it) with its initial commit
RepoInit ==
    /\ r_pc = "ready"
    /\ r_edits = <<>>
    /\ r_disk \in [RepoPaths -> {Absent, "old"}]
    /\ r_before = r_disk
    /\ r_history = <<[paths |-> {".gitignore"}]>>
    /\ r_result = [success |-> FALSE]
    /\ r_log = [commit |-> "-"]

InitRepo == OrchIdle /\ WriterIdle /\ RepoInit /\ SandboxIdle /\ FilenameIdle /\ ClientIdle
NextRepo == WriteFiles
SpecRepo == InitRepo /\ [][NextRepo]_vars

\* the paths a write_files result reports as created or modified
RepoReported == RangeOf(r_result.files_created) \cup RangeOf(r_result.files_modified)
\* the call added exactly one history entry, and it holds every reported path
RepoOneEntry ==
    /\ Len(r_history) = 2
    /\ r_history[2].paths = RepoReported

MaxTimeout == 2

ExitCodes == {0, 1, 2}
\* what container.wait(timeout=) raises when the wait outlasts the timeout:
\* the HTTP client's read timeout, or an APIError naming a timeout
WaitExceptions == {"ReadTimeout", "APIError: timeout"}
\* a command with its config, and what running it does
SandboxRequests ==
    [timeout : 1..MaxTimeout,          \* config.timeout
     duration : 1..(MaxTimeout + 1),    \* how long the command runs
     path_exists : BOOLEAN,             \* project_path is a directory
     launch_fails : BOOLEAN,            \* containers.run raises
     exit_code : ExitCodes,
     stdout : {<<>>, <<"out">>},
     stderr : {<<>>, <<"err">>},
     wait_exception : WaitExceptions]

\* SandboxResult(...); execution_time is not modelled
SandboxResult(success, exit_code, stdout, stderr, timeout, error) ==
    [success |-> success, exit_code |-> exit_code, stdout |-> stdout,
     stderr |-> stderr, timeout |-> timeout, error |-> error]

\* an error result that keeps the exit code of a clean run
ExecutionErrorExitZero(e) == [success |-> FALSE, exit_code |-> 0, stdout |-> <<>>,
                              stderr |-> <<>>, timeout |-> FALSE, error |-> e]
\* the outer except Exception of _run_docker and _run_local
ExecutionError(e) == SandboxResult(FALSE, -1, <<>>, <<>>, FALSE, e)
\* the result of the two timeout branches
TimedOut == SandboxResult(FALSE, -1, <<>>, <<"Command timed out">>, TRUE, "None")

\* _run_docker: the result and whether container.kill() ran
RunDocker(request) ==
    IF ~request.path_exists
    THEN [result |-> ExecutionError("Project path does not exist"), killed |-> FALSE]
    ELSE IF request.launch_fails
    THEN [result |-> ExecutionError("run failed"), killed |-> FALSE]
    ELSE IF request.duration <= request.timeout
    THEN [result |-> SandboxResult(request.exit_code = 0, request.exit_code,
                                   request.stdout \o request.stderr, <<>>,
                                   FALSE, "None"),
          killed |-> FALSE]
    ELSE IF request.wait_exception = "APIError: timeout"
    THEN [result |-> TimedOut, killed |-> TRUE]
    ELSE [result |-> ExecutionError(request.wait_exception), killed |-> FALSE]

\* _run_local: the result and whether process.kill() ran
RunLocal(request) ==
    IF ~request.path_exists
    THEN [result |-> ExecutionError("No such file or directory"), killed |-> FALSE]
    ELSE IF request.duration <= request.timeout
    THEN [result |-> SandboxResult(request.exit_code = 0, request.exit_code,
                                   request.stdout, request.stderr, FALSE, "None"),
          killed |-> FALSE]
    ELSE [result |-> TimedOut, killed |-> TRUE]

\* run_command(command, project_path, config, env)
RunCommand ==
    /\ s_pc = "ready"
    /\ \E request \in SandboxRequests :
        LET out == IF s_backend = "docker"
                   THEN RunDocker(request) ELSE RunLocal(request)
        IN  /\ s_request' = request
            /\ s_result' = out.result
            /\ s_killed' = out.killed
    /\ s_pc' = "returned"
    /\ UNCHANGED s_backend
    /\ UNCHANGED <<orchVars, writerVars, repoVars, filenameVars, clientVars>>

\* Sandbox.__init__ / _check_docker
SandboxInit ==
    /\ s_pc = "ready"
    /\ s_backend \in {"docker", "local"}
    /\ s_request = [timeout |-> 0]
    /\ s_result = [success |-> FALSE]
    /\ s_killed = FALSE

InitSandbox == OrchIdle /\ WriterIdle /\ RepoIdle /\ SandboxInit /\ FilenameIdle /\ ClientIdle
NextSandbox == RunCommand
SpecSandbox == InitSandbox /\ [][NextSandbox]_vars

\* C7: a command that runs longer than config.timeout is terminated and
\* run_command returns success=False, timeout=True and a non-empty stderr,
\* and the Docker and the local backend return the same result for it.
C7_TimeoutResult ==
    (/\ s_pc = "returned"
     /\ s_request.path_exists /\ ~s_request.launch_fails
     /\ s_request.duration > s_request.timeout)
        => /\ s_killed
           /\ ~s_result.success
           /\ s_result.timeout
           /\ s_result.stderr # <<>>
           /\ RunDocker(s_request).result = RunLocal(s_request).result


(***************************************************************************)
(* DirectFileWriter._intelligent_filename_from_content                     *)
(***************************************************************************)
\* most text fragments in one code block
MaxFragments == 2
\* largest block index
MaxIndex == 1

\* the text fragments a code block is made of (one per line of the block)
Fragments ==
    {"if __name__ == \"__main__\"",
     "if __name__ == '__main__'",
     "main()",
     "app()",
     "class User",
     "class.*user",
     "def Login",
     "def login",
     "API",
     "api",
     "Database",
     "database",
     "Model",
     "model",
     "assert",
     "Settings",
     "helper",
     "Password",
     "guess",
     "Calculator",
     "scraper",
     "HTML",
     "static",
     "Template"}
RECURSIVE ContentsUpTo(_)
\* the contents made of at most n fragments
ContentsUpTo(n) ==
    IF n = 0
    THEN {{}}
    ELSE LET smaller == ContentsUpTo(n - 1)
         IN smaller \cup {c \cup {t} : c \in smaller, t \in Fragments}
FilenameContents == ContentsUpTo(MaxFragments)

\* str.lower() of a fragment
Lower(text) ==
    CASE text = "class User" -> "class user"
      [] text = "def Login" -> "def login"
      [] text = "API" -> "api"
      [] text = "Database" -> "database"
      [] text = "Model" -> "model"
      [] text = "Settings" -> "settings"
      [] text = "Password" -> "password"
      [] text = "Calculator" -> "calculator"
      [] text = "HTML" -> "html"
      [] text = "Template" -> "template"
      [] OTHER -> text

\* the patterns of _intelligent_filename_from_content that are substrings
\* of a text (Python's "pattern in text")
PatternsIn(text) ==
    CASE text = "if __name__ == \"__main__\"" -> {"if __name__ == \"__main__\""}
      [] text = "if __name__ == '__main__'" -> {}
      [] text = "main()" -> {"main()"}
      [] text = "app()" -> {"app()"}
      [] text = "class User" -> {"class"}
      [] text = "class.*user" -> {"class.*user", "class"}
      [] text = "def Login" -> {}
      [] text = "def login" -> {"login"}
      [] text = "API" -> {}
      [] text = "api" -> {"api"}
      [] text = "Database" -> {}
      [] text = "database" -> {"database"}
      [] text = "Model" -> {}
      [] text = "model" -> {"model"}
      [] text = "assert" -> {"assert"}
      [] text = "Settings" -> {}
      [] text = "helper" -> {"helper"}
      [] text = "Password" -> {}
      [] text = "guess" -> {"guess"}
      [] text = "Calculator" -> {}
      [] text = "scraper" -> {"scraper", "scrape"}
      [] text = "HTML" -> {}
      [] text = "static" -> {"static"}
      [] text = "Template" -> {}
      [] text = "class user" -> {"class"}
      [] text = "settings" -> {"settings"}
      [] text = "password" -> {"password"}
      [] text = "calculator" -> {"calculator"}
      [] text = "html" -> {"html"}
      [] text = "template" -> {"template"}
      [] OTHER -> {}

\* pattern in content
InContent(pattern, content) ==
    \E fragment \in content : pattern \in PatternsIn(fragment)
\* pattern in content_lower
InContentLower(pattern, content) ==
    \E fragment \in content : pattern \in PatternsIn(Lower(fragment))


\* a returned path; n is the number in the name, 0 when it has none
FilePath(path) == [path |-> path, n |-> 0]
NumberedPath(path, n) == [path |-> path, n |-> n]

\* _intelligent_filename_from_content(content, index)
IntelligentFilenameFromContent(content, index) ==
    LET has(pattern) == InContentLower(pattern, content)
    IN
    IF /\ InContent("if __name__ == \"__main__\"", content)
       /\ (InContent("main()", content) \/ InContent("app()", content))
    THEN FilePath("main.py")
    ELSE IF has("class.*user") \/ has("def.*user")
    THEN IF has("api") \/ has("endpoint")
         THEN FilePath("api/users.py")
         ELSE FilePath("services/user_service.py")
    ELSE IF has("class.*auth") \/ has("def.*auth") \/ has("login")
    THEN IF has("api") \/ has("endpoint")
         THEN FilePath("api/auth.py")
         ELSE FilePath("auth/authentication.py")
    ELSE IF has("database") \/ has("db") \/ has("sqlite")
    THEN IF has("model")
         THEN FilePath("database/models.py")
         ELSE FilePath("database/connection.py")
    ELSE IF has("api") \/ has("endpoint") \/ has("route")
    THEN FilePath("api/routes.py")
    ELSE IF has("test") \/ has("assert")
    THEN NumberedPath("tests/test_N.py", index + 1)
    ELSE IF has("config") \/ has("settings")
    THEN FilePath("config/settings.py")
    ELSE IF has("model") /\ has("class")
    THEN FilePath("models/data_models.py")
    ELSE IF has("util") \/ has("helper")
    THEN FilePath("utils/helpers.py")
    ELSE IF has("password")
    THEN FilePath("tools/password_generator.py")
    ELSE IF has("game") \/ has("guess")
    THEN FilePath("game.py")
    ELSE IF has("calculator") \/ has("add")
    THEN FilePath("calculator.py")
    ELSE IF has("scraper") \/ has("scrape")
    THEN FilePath("scrapers/web_scraper.py")
    ELSE IF has("frontend") \/ has("html") \/ has("css")
    THEN FilePath("frontend/app.py")
    ELSE IF has("static")
    THEN FilePath("static/main.js")
    ELSE IF has("template")
    THEN FilePath("templates/index.html")
    ELSE NumberedPath("modules/module_N.py", index + 1)

\* a code block without a filename is named from its content
InferFilename ==
    /\ f_pc = "ready"
    /\ f_name' = IntelligentFilenameFromContent(f_content, f_index)
    /\ f_pc' = "returned"
    /\ UNCHANGED <<f_content, f_index>>
    /\ UNCHANGED <<orchVars, writerVars, repoVars, sandboxVars, clientVars>>

\* the arguments of one call
FilenameInit ==
    /\ f_pc = "ready"
    /\ f_content \in FilenameContents
    /\ f_index \in 0..MaxIndex
    /\ f_name = [path |-> "-", n |-> 0]

InitFilename == OrchIdle /\ WriterIdle /\ RepoIdle /\ SandboxIdle /\ FilenameInit /\ ClientIdle
NextFilename == InferFilename
SpecFilename == InitFilename /\ [][NextFilename]_vars

\* a fragment with its letter case and its quote style normalised
CanonicalFragment(text) ==
    CASE text = "if __name__ == '__main__'" -> "if __name__ == \"__main__\""
      [] text = "class User" -> "class user"
      [] text = "def Login" -> "def login"
      [] text = "API" -> "api"
      [] text = "Database" -> "database"
      [] text = "Model" -> "model"
      [] text = "Settings" -> "settings"
      [] text = "Password" -> "password"
      [] text = "Calculator" -> "calculator"
      [] text = "HTML" -> "html"
      [] text = "Template" -> "template"
      [] OTHER -> text
\* two contents that differ only in letter case or quote style
SameKeywords(c1, c2) ==
    {CanonicalFragment(t) : t \in c1} = {CanonicalFragment(t) : t \in c2}

\* C8: for the same block index, every content that differs from the given
\* one only in letter case or in quote style gets the same inferred path.
C8_CaseAndQuoteInsensitive ==
    f_pc = "returned"
        => \A other \in FilenameContents :
              SameKeywords(other, f_content)
                 => IntelligentFilenameFromContent(other, f_index) = f_name


(***************************************************************************)
(* Further properties of the controller                                    *)
(***************************************************************************)

\* C11: when run_autonomous_development halts through its outer
\* `except Exception`, the persisted record is the controller's current run
\* state (phase, iteration, debug cycles, stats).
C11_CriticalHaltSaved ==
    (pc = "exit" /\ outcome = "critical") => state_file = CurrentRecord

\* C12: a KeyboardInterrupt that arrives during an iteration (in the handler,
\* in _comprehensive_testing or in the pause) ends the run at once: the state
\* is saved and no further step of the loop is taken.
C12_InterruptSavesAndExits ==
    interrupt_log # "-"
        => /\ pc = "exit"
           /\ outcome \in {"interrupted", "raised"}
           /\ outcome = "interrupted" => state_file = CurrentRecord


\* C13: once the phase is DIAGNOSE, the handlers of DIAGNOSE and REPAIR lead
\* only to DIAGNOSE, REPAIR or VERIFY, whatever they get and also when they
\* raise, and at most max_debug_cycles DIAGNOSE handlers complete without
\* the phase becoming VERIFY.
C13_DebugLoopBounded ==
    /\ [](debug_loops <= max_debug_cycles)
    /\ [][(pc = "phase" /\ phase \in {"DIAGNOSE", "REPAIR"} /\ pc' = "testing")
            => /\ phase' \in {"DIAGNOSE", "REPAIR", "VERIFY"}
               /\ (phase = "DIAGNOSE" /\ phase' # "VERIFY"
                     => debug_loops' = debug_loops + 1)]_vars

\* max_debug_cycles DIAGNOSE handlers have completed in one loop, the last of
\* them by raising, and the phase is still inside the loop
C13_Witness ==
    /\ max_debug_cycles >= 2 /\ debug_loops = max_debug_cycles
    /\ pc = "testing" /\ phase = "REPAIR"
    /\ handler_log.phase = "DIAGNOSE" /\ handler_log.raised


\* C14: after the PLAN handler has run without raising, on every path (a
\* parsed plan, text without a plan, a failed model call), acceptance_tests
\* is a non-empty list.
C14_AcceptanceTestsNonEmpty ==
    (pc = "testing" /\ handler_log.phase = "PLAN" /\ ~handler_log.raised)
        => acceptance_tests # <<>>


(***************************************************************************)
(* The two write paths together: RepoService.write_files and the tool      *)
(* calls that go through DirectFileWriter                                  *)
(***************************************************************************)
InitMaterialize ==
    /\ OrchIdle /\ SandboxIdle /\ FilenameIdle /\ ClientIdle
    /\ \/ WriterInit /\ RepoIdle
       \/ WriterIdle /\ RepoInit
NextMaterialize == WriteFiles \/ ExecuteToolCalls \/ WriteMultipleFiles
SpecMaterialize == InitMaterialize /\ [][NextMaterialize]_vars

\* the modes of the edits of a batch that name a path
RepoModesOf(path) ==
    {r_edits[k].mode : k \in {j \in 1..Len(r_edits) : r_edits[j].path = path}}
ToolModesOf(path) ==
    {w_edits[k].mode : k \in {j \in 1..Len(w_edits) : w_edits[j].file.path = path}}

\* C15: a create edit on a path that exists fails and leaves the file as it
\* was, and a patch edit on a path that does not exist fails and creates no
\* file, in RepoService.write_files and for the create edits of a tool call
\* that goes through _execute_tool_calls / write_multiple_files.
C15_CreateAndPatchGuards ==
    /\ r_pc = "returned" =>
         \A path \in RepoPaths :
            /\ (RepoModesOf(path) = {"create"} /\ r_before[path] # Absent)
                  => /\ r_disk[path] = r_before[path]
                     /\ ~r_result.success
                     /\ ~SeqContains(r_result.files_created, path)
            /\ (RepoModesOf(path) = {"patch"} /\ r_before[path] = Absent)
                  => /\ r_disk[path] = Absent
                     /\ ~r_result.success
                     /\ ~SeqContains(r_result.files_modified, path)
    /\ (w_pc = "returned" /\ w_edits # <<>>) =>
         \A path \in WriterPaths :
            (ToolModesOf(path) = {"create"} /\ w_before[path] # Absent)
                  => /\ w_disk[path] = w_before[path]
                     /\ ~w_result.success


\* the first strategy, in the order tool-call JSON, loose pairs, fenced code
\* blocks, whole response, that finds files in a response
FirstYielding(response) ==
    IF response.json = "files" THEN "tool_calls"
    ELSE IF response.pairs THEN "pairs"
    ELSE IF response.blocks THEN "code_blocks"
    ELSE IF response.python_text THEN "whole_response"
    ELSE "none"

\* C16: parse_ai_response_and_write uses the first strategy of the fixed
\* order that yields files, trying the later ones when an earlier one yields
\* nothing, so a response with a fenced code block is always materialized.
C16_FirstYieldingStrategyWins ==
    (w_pc = "returned" /\ w_parse.strategy # "-")
        => /\ w_parse.strategy = FirstYielding(w_parse.response)
           /\ w_parse.response.blocks => w_batch # <<>>


\* C17: DONE is terminal. While a run is in DONE no phase handler is
\* executed, iteration_count and debug_cycle_count keep their values, the
\* loop condition leads out of the loop, and the report after the loop is
\* the completion report, never the iteration-limit report; this includes a
\* resumed run that starts in DONE.
C17_DoneIsTerminal ==
    [][(phase = "DONE" /\ pc \notin {"idle", "exit"})
        => /\ phase' = "DONE"
           /\ iteration_count' = iteration_count
           /\ debug_cycle_count' = debug_cycle_count
           /\ handlers_run' = handlers_run
           /\ handler_log' = handler_log
           /\ pc' # "phase"
           /\ pc = "head" => pc' = "final"
           /\ pc = "final" => outcome' # "limit"]_vars

C17_Witness ==
    /\ pc = "exit"
    /\ outcome = "completed"
    /\ start_log.kind = "resume"
    /\ start_log.phase = "DONE"
    /\ iteration_count < max_iterations
    /\ handlers_run = 0


\* C18: every loop iteration adds exactly 1 to iteration_count and invokes
\* exactly one phase handler, the one of the phase the iteration started
\* with; the next iteration starts only after that handler has ended and
\* set the phase. Within one run the handlers run and the iterations begun
\* stay in step.
C18_OneHandlerPerIteration ==
    /\ [](pc \in {"testing", "save", "sleep", "head", "final"}
            => handlers_run = iteration_count - start_log.iteration)
    /\ [](pc = "phase" => handlers_run + 1 = iteration_count - start_log.iteration)
    /\ [][pc \notin {"idle", "exit"}
            => /\ iteration_count' # iteration_count
                    => /\ pc = "head" /\ pc' = "phase"
                       /\ iteration_count' = iteration_count + 1
                       /\ phase' = phase
               /\ handlers_run' # handlers_run
                    => /\ pc = "phase" /\ pc' \in {"testing", "exit"}
                       /\ handlers_run' = handlers_run + 1
                       /\ handler_log'.phase = phase
                       /\ handler_log'.iteration = iteration_count
               /\ pc = "phase" => handlers_run' = handlers_run + 1
               /\ pc' = "head" => pc \in {"sleep", "exit"}]_vars

C18_Witness ==
    /\ pc = "head"
    /\ handlers_run = 3
    /\ iteration_count = start_log.iteration + 3
    /\ handler_log.iteration = iteration_count
    /\ handler_log.phase = "VERIFY"


\* C19: a handler that ends without raising leaves state.phase different
\* from the phase it was invoked for, whatever the model and the sandbox
\* answered.
C19_HandlerChangesPhase ==
    [][(pc = "phase" /\ pc' = "testing" /\ ~handler_log'.raised)
        => phase' # phase]_vars

C19_Witness ==
    /\ pc = "testing"
    /\ handler_log.phase = "VERIFY"
    /\ ~handler_log.raised
    /\ phase = "DIAGNOSE"

\* C20: during a run debug_cycle_count is changed only by the DIAGNOSE
\* handler, which adds exactly 1 each time it is executed, also when the rest
\* of the handler raises; no other handler, no error recovery and no other
\* step of the loop changes it, and it never decreases.
C20_DebugCountOnlyByDiagnose ==
    [][pc \notin {"idle", "exit"}
        => /\ debug_cycle_count' # debug_cycle_count
                => pc = "phase" /\ phase = "DIAGNOSE"
           /\ (pc = "phase" /\ phase = "DIAGNOSE")
                => /\ debug_cycle_count' = debug_cycle_count + 1
                   /\ diagnose_runs' = diagnose_runs + 1
           /\ debug_cycle_count' >= debug_cycle_count
           /\ debug_cycle_count' - debug_cycle_count = diagnose_runs' - diagnose_runs]_vars

C20_Witness ==
    /\ pc = "testing"
    /\ handler_log.phase = "DIAGNOSE"
    /\ handler_log.raised
    /\ phase = "REPAIR"
    /\ diagnose_runs = 2
    /\ debug_cycle_count = start_log.debug_cycles + 2


(***************************************************************************)
(* Properties of the phase handlers                                        *)
(***************************************************************************)

\* C21: PLAN never blocks the pipeline. When the model call fails or the
\* response fails validation the handler stores the single default criterion
\* and sets ARCHITECT; on success it stores the parsed acceptance tests and
\* sets ARCHITECT as well.
C21_PlanAlwaysAdvances ==
    (pc = "testing" /\ handler_log.phase = "PLAN" /\ ~handler_log.raised)
        => /\ phase = "ARCHITECT"
           /\ handler_io.kind = "plan"
           /\ IF handler_io.model /\ handler_io.valid
              THEN acceptance_tests = handler_io.planned
              ELSE acceptance_tests = <<"Application runs without errors">>

C21_Witness ==
    /\ pc = "testing"
    /\ handler_log.phase = "PLAN"
    /\ ~handler_log.raised
    /\ handler_io.kind = "plan"
    /\ handler_io.model
    /\ ~handler_io.valid
    /\ phase = "ARCHITECT"
    /\ acceptance_tests = <<"Application runs without errors">>

\* C22: the ARCHITECT handler sets CODE_WRITE whether or not the model
\* succeeded and whether or not its response validated, and it records the
\* build and test command strings in the run state.
C22_ArchitectAlwaysCodeWrite ==
    (pc = "testing" /\ handler_log.phase = "ARCHITECT" /\ ~handler_log.raised)
        => /\ phase = "CODE_WRITE"
           /\ test_cmd = "python -m pytest tests/ -v"

\* C23: the CODE_WRITE handler sets TEST_WRITE unconditionally: after a
\* failed model call, and after a materialization that extracted no file on
\* both attempts, the handler ends in TEST_WRITE like after a success.
C23_CodeWriteAlwaysTestWrite ==
    (pc = "testing" /\ handler_log.phase = "CODE_WRITE" /\ ~handler_log.raised)
        => /\ phase = "TEST_WRITE"
           /\ handler_io.kind = "code_write"
           /\ ~handler_io.model => handler_io.attempts = 0
           /\ (handler_io.model /\ ~handler_io.written) => handler_io.attempts = 2

C23_Witness ==
    /\ pc = "testing"
    /\ handler_log.phase = "CODE_WRITE"
    /\ ~handler_log.raised
    /\ handler_io.kind = "code_write"
    /\ handler_io.model
    /\ handler_io.attempts = 2
    /\ ~handler_io.written
    /\ phase = "TEST_WRITE"

\* C24: BUILD_RUN sets VERIFY exactly when the test command succeeded and
\* every static-analysis result succeeded; otherwise it sets DIAGNOSE and
\* stores failure logs, which are then non-empty, for a failing test run
\* (with or without error output, as after a timeout or an execution error)
\* as well as for an analysis-only failure.
C24_BuildRunDecision ==
    (pc = "testing" /\ handler_log.phase = "BUILD_RUN" /\ ~handler_log.raised)
        => /\ handler_io.kind = "build_run"
           /\ phase \in {"VERIFY", "DIAGNOSE"}
           /\ phase = "VERIFY" <=> (handler_io.tests_passed /\ handler_io.failed = {})
           /\ phase = "DIAGNOSE" => last_logs # <<>>
           /\ (phase = "DIAGNOSE" /\ ~handler_io.tests_passed)
                => last_logs[1] = "TEST FAILURES:"

C24_Witness ==
    /\ pc = "testing"
    /\ handler_log.phase = "BUILD_RUN"
    /\ ~handler_log.raised
    /\ handler_io.kind = "build_run"
    /\ handler_io.tests_passed
    /\ handler_io.failed = {"ruff"}
    /\ phase = "DIAGNOSE"
    /\ last_logs = <<"RUFF ISSUES:">>

\* C25: REPAIR re-runs the tests; on success it sets VERIFY, on failure it
\* replaces last_logs with the logs of the failing run and sets DIAGNOSE, so
\* DIAGNOSE entered from REPAIR always has non-empty logs of the new failure,
\* on either backend and for timeouts and execution errors too.
C25_RepairLeavesLogs ==
    (pc = "testing" /\ handler_log.phase = "REPAIR" /\ ~handler_log.raised)
        => /\ handler_io.kind = "repair"
           /\ phase = (IF handler_io.test_success THEN "VERIFY" ELSE "DIAGNOSE")
           /\ phase = "DIAGNOSE" => /\ last_logs = handler_io.test_stderr
                                    /\ last_logs # <<>>

\* C26: on a parsed verifier response VERIFY sets DONE if and only if the
\* decision has complete = true and a confidence of at least the threshold
\* (90); otherwise CODE_WRITE when missing_requirements or quality_issues is
\* non-empty, TEST_WRITE when both are empty or absent. A missing confidence
\* counts as 0.
C26_ParsedDecision ==
    (/\ pc = "testing" /\ handler_log.phase = "VERIFY" /\ ~handler_log.raised
     /\ handler_io.kind = "verify" /\ handler_io.path = "parsed")
        => /\ ConfidenceThreshold = 90
           /\ phase = "DONE" <=> /\ handler_io.complete
                                 /\ handler_io.has_confidence
                                 /\ handler_io.confidence >= 90
           /\ phase # "DONE"
                => phase = (IF handler_io.missing_or_issues
                            THEN "CODE_WRITE" ELSE "TEST_WRITE")

C26_Witness ==
    /\ pc = "testing"
    /\ handler_log.phase = "VERIFY"
    /\ ~handler_log.raised
    /\ handler_io.kind = "verify"
    /\ handler_io.path = "parsed"
    /\ handler_io.complete
    /\ handler_io.has_confidence
    /\ handler_io.confidence = 89
    /\ ~handler_io.missing_or_issues
    /\ phase = "TEST_WRITE"

\* C27: when the verifier call fails or its response cannot be parsed, VERIFY
\* sets DONE if and only if the test runs of the handler passed and the
\* workspace holds at least the minimum number of files (3), and DIAGNOSE
\* otherwise; DONE is reached through this fallback for a workspace whose
\* unit and integration tests pass.
C27_FallbackDecision ==
    (/\ pc = "testing" /\ handler_log.phase = "VERIFY" /\ ~handler_log.raised
     /\ handler_io.kind = "verify" /\ handler_io.path = "fallback")
        => /\ phase \in {"DONE", "DIAGNOSE"}
           /\ phase = "DONE" <=> /\ handler_io.tests_passed
                                 /\ handler_io.file_count >= 3

\* C28 as stated: the transition graph has the loops DIAGNOSE -> BUILD_RUN,
\* REPAIR -> BUILD_RUN and REPAIR -> DIAGNOSE, and VERIFY -> CODE_WRITE and
\* VERIFY -> TEST_WRITE: a handler started in the source phase can end in
\* the target phase.
C28_Original ==
    /\ (pc = "phase" /\ phase \in {"DIAGNOSE", "REPAIR"})
            => ENABLED (ExecuteCurrentPhase /\ phase' = "BUILD_RUN")
    /\ (pc = "phase" /\ phase = "REPAIR")
            => ENABLED (ExecuteCurrentPhase /\ phase' = "DIAGNOSE")
    /\ (pc = "phase" /\ phase = "VERIFY")
            => /\ ENABLED (ExecuteCurrentPhase /\ phase' = "CODE_WRITE")
               /\ ENABLED (ExecuteCurrentPhase /\ phase' = "TEST_WRITE")

\* C28: the loops of the transition graph are REPAIR -> DIAGNOSE and
\* VERIFY -> CODE_WRITE, VERIFY -> TEST_WRITE (and VERIFY -> DIAGNOSE through
\* the fallback); a handler started in DIAGNOSE or REPAIR ends in DIAGNOSE,
\* REPAIR or VERIFY and never in BUILD_RUN.
C28_TransitionLoops ==
    /\ [](/\ (pc = "phase" /\ phase = "REPAIR")
                => ENABLED (ExecuteCurrentPhase /\ phase' = "DIAGNOSE")
          /\ (pc = "phase" /\ phase = "VERIFY")
                => /\ ENABLED (ExecuteCurrentPhase /\ phase' = "CODE_WRITE")
                   /\ ENABLED (ExecuteCurrentPhase /\ phase' = "TEST_WRITE")
                   /\ ENABLED (ExecuteCurrentPhase /\ phase' = "DIAGNOSE"))
    /\ [][(pc = "phase" /\ phase \in {"DIAGNOSE", "REPAIR"} /\ phase' # phase)
            => phase' \in {"DIAGNOSE", "REPAIR", "VERIFY"}]_vars
    /\ [][(pc = "phase" /\ phase' = "BUILD_RUN" /\ phase' # phase)
            => phase = "TEST_WRITE"]_vars

C28_Witness ==
    /\ pc = "testing"
    /\ handler_log.phase = "REPAIR"
    /\ ~handler_log.raised
    /\ handler_io.kind = "repair"
    /\ ~handler_io.test_success
    /\ phase = "DIAGNOSE"
    /\ debug_loops >= 1


(***************************************************************************)
(* Properties of the persistence step                                      *)
(***************************************************************************)

\* the persisted record holds the in-memory values, with iteration i
PersistedIs(i) ==
    state_file = [phase |-> phase, iteration |-> i,
                  debug_cycles |-> debug_cycle_count,
                  files_created |-> total_files_created,
                  tests_run |-> total_tests_run,
                  bugs_fixed |-> total_bugs_fixed]

\* C29: every iteration persists the state once, after the handler and its
\* error recovery have ended, and the record's phase, iteration, debug_cycles
\* and stats are the in-memory values at that point; the handler of the next
\* iteration starts only after that write has completed.
C29_PersistAfterHandler ==
    /\ [](pc = "sleep" => PersistedIs(iteration_count)
                          /\ saved_log.kind = "loop"
                          /\ saved_log.iteration = iteration_count
                          /\ handler_log.iteration = iteration_count)
    /\ [](pc = "phase" => \/ handlers_run = 0
                          \/ PersistedIs(iteration_count - 1)
                             /\ saved_log.iteration = iteration_count - 1)
    /\ [][pc \notin {"idle", "exit"}
            => /\ (state_file' # state_file \/ saved_log' # saved_log)
                    => \/ pc = "save" /\ pc' = "sleep"
                       \/ pc' = "exit" /\ outcome' = "interrupted"
               /\ pc' = "sleep"
                    => /\ pc = "save"
                       /\ phase' = phase /\ iteration_count' = iteration_count
               /\ pc = "save" => UNCHANGED <<handlers_run, handler_log>>
               /\ pc' = "save" => pc = "testing"
               /\ pc' = "head" => pc = "sleep"]_vars

C29_Witness ==
    /\ pc = "phase"
    /\ handlers_run = 2
    /\ phase = "DIAGNOSE"
    /\ debug_cycle_count = 1
    /\ PersistedIs(iteration_count - 1)
    /\ saved_log.kind = "loop"

\* C30: when a run ends by a crash or an interrupt at any point of an
\* iteration and is resumed, the first handler of the resumed run repeats a
\* handler whose side effects were already applied only if the previous run
\* ended between that handler's completion and the persistence step.
C30_RepeatOnlyInWindow ==
    (/\ pc = "phase" /\ handlers_run = 0 /\ start_log.kind = "resume"
     /\ applied = phase)
        => /\ exit_log.how \in {"crash", "interrupt", "error"}
           /\ exit_log.at \in {"testing", "save"}

(***************************************************************************)
(* Further properties of the materializer and of the sandbox               *)
(***************************************************************************)

\* a content that defines a class or a function whose name contains "user"
UserRelated(content) ==
    \E t \in content : Lower(t) \in {"class user"}
\* the content shows the entry-point pattern
EntryPoint(content) ==
    /\ InContent("if __name__ == \"__main__\"", content)
    /\ InContent("main()", content) \/ InContent("app()", content)

\* C31: the inferred path is a function of (content, index) in which the
\* first matching rule wins, in the order entry point, user, auth,
\* persistence, route, test, config, utility, generic: content with both a
\* persistence and a test keyword gets a database path, content that defines
\* a class or function named after "user" gets api/users.py or
\* services/user_service.py, and content matching no rule gets
\* modules/module_<index+1>.py.
C31_FirstRuleWins ==
    f_pc = "returned"
        => LET has(pattern) == InContentLower(pattern, f_content)
               user == UserRelated(f_content) \/ has("class.*user")
               auth == has("login")
           IN /\ f_name = IntelligentFilenameFromContent(f_content, f_index)
              /\ EntryPoint(f_content) => f_name = FilePath("main.py")
              /\ (~EntryPoint(f_content) /\ user)
                    => f_name \in {FilePath("api/users.py"),
                                   FilePath("services/user_service.py")}
              /\ (~EntryPoint(f_content) /\ ~user /\ ~auth
                     /\ has("database") /\ has("assert"))
                    => f_name \in {FilePath("database/models.py"),
                                   FilePath("database/connection.py")}
              /\ (\A t \in f_content : PatternsIn(Lower(t)) = {})
                    => f_name = NumberedPath("modules/module_N.py", f_index + 1)

\* C32: each detected dependency gets its own install attempt, whatever the
\* outcome (failure, timeout, exception) of the others, and the outcomes do
\* not change the batch result: success = True, every written file
\* reported, and the commit step taken over all of them.
C32_InstallsIndependent ==
    (w_pc = "returned" /\ w_log.discovery = "written")
        => /\ DOMAIN w_log.installs = w_manifest
           /\ \A p \in w_manifest : w_log.installs[p] \in InstallOutcomes
           /\ w_result = [success |-> TRUE,
                          files_created |-> FirstPaths(w_batch, Len(w_batch)),
                          error |-> "none"]
           /\ w_log.commit \in {"done", "failed"}
           /\ w_log.commit = "done"
                => w_history[Len(w_history)].paths = RangeOf(w_result.files_created)

C32_Witness ==
    /\ w_pc = "returned"
    /\ w_log.discovery = "written"
    /\ w_log.installs = [p \in {"PyYAML", "requests"} |->
                             IF p = "PyYAML" THEN "timed out" ELSE "installed"]
    /\ w_result.success
    /\ Len(w_result.files_created) = 2
    /\ w_log.commit = "done"

(***************************************************************************)
(* ModelClient.call_ai_actor                                               *)
(***************************************************************************)
\* largest config.max_retries
MaxRetries == 4

\* how a request that did not succeed ends inside _make_ollama_request: a
\* status code other than 200, requests.exceptions.Timeout, or another
\* exception, each turned into an AIResponse with success=False
FailedResponses == {"http error", "timed out", "request error"}

\* asyncio.sleep(2 ** attempt)
Backoff(attempt) == 2 ^ attempt

\* call_ai_actor is entered: the prompt is built and the loop starts
CallAIActor ==
    /\ c_pc = "ready"
    /\ c_pc' = "calling"
    /\ c_attempt' = 0
    /\ c_outcomes' = <<>>
    /\ c_sleeps' = <<>>
    /\ UNCHANGED <<c_max_retries, c_response>>
    /\ UNCHANGED <<orchVars, writerVars, repoVars, sandboxVars, filenameVars>>

\* one turn of the loop: the request succeeds
RequestSucceeds ==
    /\ c_pc = "calling"
    /\ c_attempt < c_max_retries
    /\ c_outcomes' = Append(c_outcomes, "success")
    /\ c_sleeps' = Append(c_sleeps, 0)
    /\ c_response' = [success |-> TRUE, error |-> "none", retry_count |-> c_attempt]
    /\ c_pc' = "returned"
    /\ UNCHANGED <<c_max_retries, c_attempt>>
    /\ UNCHANGED <<orchVars, writerVars, repoVars, sandboxVars, filenameVars>>

\* one turn of the loop: the request returns a failed response; the last
\* attempt returns it, any other sleeps and goes on
RequestFails ==
    /\ c_pc = "calling"
    /\ c_attempt < c_max_retries
    /\ \E error \in FailedResponses :
        /\ c_outcomes' = Append(c_outcomes, error)
        /\ IF c_attempt = c_max_retries - 1
           THEN /\ c_response' = [success |-> FALSE, error |-> error, retry_count |-> 0]
                /\ c_sleeps' = Append(c_sleeps, 0)
                /\ c_pc' = "returned"
                /\ UNCHANGED c_attempt
           ELSE /\ c_sleeps' = Append(c_sleeps, Backoff(c_attempt))
                /\ c_attempt' = c_attempt + 1
                /\ UNCHANGED <<c_pc, c_response>>
    /\ UNCHANGED c_max_retries
    /\ UNCHANGED <<orchVars, writerVars, repoVars, sandboxVars, filenameVars>>

\* one turn of the loop: an exception reaches `except Exception`; the last
\* attempt returns a failed response, any other goes on to the next turn
RequestRaises ==
    /\ c_pc = "calling"
    /\ c_attempt < c_max_retries
    /\ c_outcomes' = Append(c_outcomes, "raised")
    /\ c_sleeps' = Append(c_sleeps, 0)
    /\ IF c_attempt = c_max_retries - 1
       THEN /\ c_response' = [success |-> FALSE, error |-> "exception",
                              retry_count |-> c_attempt]
            /\ c_pc' = "returned"
            /\ UNCHANGED c_attempt
       ELSE /\ c_attempt' = c_attempt + 1
            /\ UNCHANGED <<c_pc, c_response>>
    /\ UNCHANGED c_max_retries
    /\ UNCHANGED <<orchVars, writerVars, repoVars, sandboxVars, filenameVars>>

\* the loop ends without a return: range(max_retries) is empty
RetriesExceeded ==
    /\ c_pc = "calling"
    /\ c_attempt >= c_max_retries
    /\ c_response' = [success |-> FALSE, error |-> "Max retries exceeded",
                      retry_count |-> 0]
    /\ c_pc' = "returned"
    /\ UNCHANGED <<c_max_retries, c_attempt, c_outcomes, c_sleeps>>
    /\ UNCHANGED <<orchVars, writerVars, repoVars, sandboxVars, filenameVars>>

\* ModelClient.__init__(config)
ClientInit ==
    /\ c_pc = "ready"
    /\ c_max_retries \in 0..MaxRetries
    /\ c_attempt = 0
    /\ c_outcomes = <<>>
    /\ c_sleeps = <<>>
    /\ c_response = [success |-> FALSE]

InitClient ==
    OrchIdle /\ WriterIdle /\ RepoIdle /\ SandboxIdle /\ FilenameIdle /\ ClientInit
NextClient ==
    CallAIActor \/ RequestSucceeds \/ RequestFails \/ RequestRaises \/ RetriesExceeded
SpecClient == InitClient /\ [][NextClient]_vars

\* the modules of the Python standard library among the imported ones
StandardLibrary == {"os", "sys", "re", "json", "sqlite3"}
\* the packages a batch depends on: the packages of the modules its .py
\* files import from outside the standard library
ThirdPartyPackages(files) ==
    UNION {{PackageName(m) : m \in files[k].imports \ StandardLibrary} :
             k \in {j \in 1..Len(files) : IsPython(files[j].path)}}

\* C39: a batch whose .py files import a module from outside the standard
\* library rewrites requirements.txt, which then holds exactly that batch's
\* dependencies; a batch without such imports leaves it untouched; and
\* requirements.txt is never among the paths of the batch's commit. (Batches
\* that were written, scanned completely and whose manifest write succeeded.)
C39_ManifestPerBatch ==
    [][(/\ w_pc = "ready" /\ w_pc' = "returned"
        /\ w_batch' # <<>> /\ w_result'.success
        /\ w_log'.scanned_all /\ w_log'.discovery # "failed")
        => LET packages == ThirdPartyPackages(w_batch') IN
           /\ w_manifest' = IF packages # {} THEN packages ELSE w_manifest
           /\ w_log'.commit = "done"
                => "requirements.txt" \notin w_history'[Len(w_history')].paths]_vars

\* C40: run_command always returns a SandboxResult, on both backends and
\* also for a project path that does not exist, and the result satisfies:
\* success = (exit_code = 0); timeout = True or error set implies
\* success = False and exit_code = -1; timeout = True implies
\* stderr = "Command timed out" and error unset.
C40_ResultWellFormed ==
    /\ s_pc \in {"off", "ready", "returned"}
    /\ s_pc = "returned"
         => /\ s_result.success = (s_result.exit_code = 0)
            /\ (s_result.timeout \/ s_result.error # "None")
                  => ~s_result.success /\ s_result.exit_code = -1
            /\ s_result.timeout
                  => /\ s_result.stderr = <<"Command timed out">>
                     /\ s_result.error = "None"
            /\ ~s_request.path_exists
                  => /\ s_result.error # "None"
                     /\ ~s_result.success

\* the local backend was given a project path that does not exist
C40_Witness ==
    /\ s_pc = "returned"
    /\ s_backend = "local"
    /\ ~s_request.path_exists
    /\ s_request.exit_code = 0
    /\ s_result.error # "None"
    /\ s_result.exit_code = -1
    /\ ~s_result.success

\* C38: when writing the k-th file of a batch raises, the k-1 files written
\* before it stay on disk, nothing is committed, dependency discovery is
\* skipped (requirements.txt untouched, nothing installed), and the result is
\* success = False with files_created listing exactly those k-1 files.
C38_PartialBatchStays ==
    [][(w_pc = "ready" /\ w_pc' = "returned"
        /\ w_batch' # <<>> /\ ~w_result'.success)
        => LET n == Len(w_result'.files_created) IN
           /\ n < Len(w_batch')
           /\ \A j \in 1..n : w_result'.files_created[j] = w_batch'[j].path
           /\ \A path \in WriterPaths :
                 LET writes == {j \in 1..n : w_batch'[j].path = path} IN
                 w_disk'[path] =
                    IF writes = {} THEN w_disk[path]
                    ELSE w_batch'[CHOOSE j \in writes :
                                     \A i \in writes : i <= j].content
           /\ w_history' = w_history
           /\ w_manifest' = w_manifest
           /\ w_log'.commit = "skipped"
           /\ w_log'.discovery = "skipped"
           /\ w_log'.installs = NoInstalls]_vars

\* the second file of a batch failed: the first one is on disk and reported
C38_Witness ==
    /\ w_pc = "returned"
    /\ Len(w_batch) = 2
    /\ ~w_result.success
    /\ w_result.files_created = <<"main.py">>
    /\ w_before["main.py"] = Absent
    /\ w_disk["main.py"] = "v1"
    /\ Len(w_history) = 1

C37_InstallFailureIgnored ==
    (/\ pc = "testing" /\ handler_log.phase = "BUILD_RUN"
     /\ handler_io.kind = "build_run" /\ handler_io.install # "installed")
        => /\ ~handler_log.raised
           /\ total_tests_run >= 1
           /\ phase = IF handler_io.tests_passed /\ handler_io.failed = {}
                      THEN "VERIFY" ELSE "DIAGNOSE"

\* no dependency file, the tests and the analysis pass, the phase is VERIFY
C37_Witness ==
    /\ pc = "testing" /\ handler_log.phase = "BUILD_RUN"
    /\ handler_io.kind = "build_run"
    /\ handler_io.install = "no dependency file"
    /\ handler_io.tests_passed /\ handler_io.failed = {}
    /\ phase = "VERIFY"

\* C36: in VERIFY a parsed decision with complete = true and confidence >= 90
\* sets DONE whatever the test runs of the same handler returned; on that
\* path the test results neither approve nor send the run to DIAGNOSE.
C36_ApprovalIgnoresTests ==
    (/\ pc = "testing" /\ handler_log.phase = "VERIFY"
     /\ handler_io.kind = "verify" /\ handler_io.path = "parsed")
        => IF /\ handler_io.complete /\ handler_io.has_confidence
              /\ handler_io.confidence >= ConfidenceThreshold
           THEN phase = "DONE"
           ELSE phase \in {"CODE_WRITE", "TEST_WRITE"}

\* the verifier approved although the unit or the integration tests failed
C36_Witness ==
    /\ pc = "testing" /\ handler_log.phase = "VERIFY"
    /\ handler_io.kind = "verify" /\ handler_io.path = "parsed"
    /\ handler_io.complete /\ handler_io.confidence = ConfidenceThreshold
    /\ ~handler_io.tests_passed
    /\ phase = "DONE"

\* C35: once debug_cycle_count has reached max_debug_cycles, every DIAGNOSE
\* handler that ends goes to VERIFY without a model call, without a write
\* and without counting a fixed bug; from then on the phase moves between
\* DIAGNOSE and VERIFY only, and leaves the two only by a decision of the
\* VERIFY handler (the loop itself ends at the iteration ceiling).
C35_OverCeilingCycle ==
    [][(/\ pc = "phase" /\ pc' = "testing"
        /\ phase \in {"DIAGNOSE", "VERIFY"}
        /\ debug_cycle_count >= max_debug_cycles)
        => /\ phase = "DIAGNOSE"
                => /\ phase' = "VERIFY"
                   /\ ~handler_log'.raised
                   /\ handler_io' = NoIO
                   /\ total_bugs_fixed' = total_bugs_fixed
                   /\ total_files_created' = total_files_created
                   /\ last_logs' = last_logs
           /\ phase' \notin {"DIAGNOSE", "VERIFY"}
                => /\ phase = "VERIFY"
                   /\ ~handler_log'.raised
                   /\ handler_io'.kind = "verify"
           /\ debug_cycle_count' >= max_debug_cycles]_vars

\* over the ceiling the run went DIAGNOSE, VERIFY, DIAGNOSE and is about to
\* run VERIFY again
C35_Witness ==
    /\ pc = "testing"
    /\ handler_log.phase = "DIAGNOSE"
    /\ phase = "VERIFY"
    /\ debug_cycle_count >= max_debug_cycles + 2
    /\ diagnose_runs >= max_debug_cycles + 2
    /\ handlers_run >= 3

\* C34: state.phase becomes DONE only in the VERIFY handler: no other
\* handler and no error recovery sets it, so a run that is in DONE executed
\* VERIFY last, in the iteration that set DONE.
C34_DoneOnlyByVerify ==
    /\ [][(phase' = "DONE" /\ phase # "DONE")
            => /\ pc = "phase" /\ phase = "VERIFY"
               /\ handler_log'.phase = "VERIFY"
               /\ ~handler_log'.raised]_vars
    /\ [](phase = "DONE" => applied = "VERIFY")
    /\ []((phase = "DONE" /\ handlers_run > 0)
             => /\ handler_log.phase = "VERIFY"
                /\ handler_log.iteration = iteration_count)

C34_Witness ==
    /\ pc = "exit"
    /\ outcome = "completed"
    /\ phase = "DONE"
    /\ handler_log.phase = "VERIFY"
    /\ handlers_run >= 2
    /\ diagnose_runs >= 1

====
